---- MODULE Spec2Model ----
(***************************************************************************)
(* dockdiver: registry extraction engine.                                  *)
(*                                                                         *)
(* The model follows registry/registry.go (ListRepositories,               *)
(* DumpAllRepositories, DumpRepository, getAndStoreResponse,               *)
(* getAndStoreBlob), utils/utils.go (CreateDir, StoreResponse) and         *)
(* client/client.go (MakeRequest and its rate limiter).                    *)
(*                                                                         *)
(* Strings that the code takes apart (paths, digests, file names) are      *)
(* sequences of tokens, so filepath.Join/Clean/Dir and strings.ReplaceAll  *)
(* are computed, not assumed.                                              *)
(***************************************************************************)
EXTENDS Integers, Sequences, FiniteSets, TLC

(***************************************************************************)
(* Paths: path/filepath on token sequences.  "/" is the separator token.   *)
(***************************************************************************)
Sep == "/"
DotDot == <<"..">>
Dot == <<".">>

Last(s) == s[Len(s)]
Front(s) == SubSeq(s, 1, Len(s) - 1)

RECURSIVE SplitFrom(_, _, _, _)
SplitFrom(p, sep, i, cur) ==
    IF i > Len(p) THEN <<cur>>
    ELSE IF p[i] = sep THEN <<cur>> \o SplitFrom(p, sep, i + 1, <<>>)
    ELSE SplitFrom(p, sep, i + 1, Append(cur, p[i]))

\* strings.Split(p, sep) on tokens: the pieces between separators
Split(p, sep) == SplitFrom(p, sep, 1, <<>>)

RECURSIVE CleanFrom(_, _, _)
CleanFrom(segs, i, out) ==
    IF i > Len(segs) THEN out
    ELSE IF segs[i] = <<>> \/ segs[i] = Dot THEN CleanFrom(segs, i + 1, out)
    ELSE IF segs[i] = DotDot
         THEN IF Len(out) > 0 /\ Last(out) # DotDot
              THEN CleanFrom(segs, i + 1, Front(out))
              ELSE CleanFrom(segs, i + 1, Append(out, DotDot))
    ELSE CleanFrom(segs, i + 1, Append(out, segs[i]))

\* filepath.Clean of a relative path: the list of its segments, "." and
\* empty segments dropped, ".." resolved lexically (<<>> is ".")
Clean(p) == CleanFrom(Split(p, Sep), 1, <<>>)

\* filepath.Join(a, b, c)
Join3(a, b, c) == Clean(a \o <<Sep>> \o b \o <<Sep>> \o c)

\* filepath.Dir of a cleaned path
Dir(cp) == IF Len(cp) = 0 THEN <<>> ELSE Front(cp)

\* filepath.Base of a cleaned path
Base(cp) == IF Len(cp) = 0 THEN Dot ELSE Last(cp)

IsPrefix(a, b) == Len(a) <= Len(b) /\ SubSeq(b, 1, Len(a)) = a

(***************************************************************************)
(* The file system: cleaned path -> entry.  The working directory <<>> and *)
(* its ancestors (paths made of ".." only) always exist as directories.    *)
(* A file entry carries its bytes and two history fields: "complete",      *)
(* whether its writer has written all the bytes it meant to write, and     *)
(* "digest", the digest the file was requested with (<<>> for a file that  *)
(* is no blob).                                                            *)
(***************************************************************************)
DirEntry == [type |-> "dir"]
FileEntry(data, complete, digest) ==
    [type |-> "file", data |-> data, complete |-> complete, digest |-> digest]

Ancestral(cp) == \A i \in 1..Len(cp) : cp[i] = DotDot

Exists(f, cp) == Ancestral(cp) \/ cp \in DOMAIN f
IsDir(f, cp) == Ancestral(cp) \/ (cp \in DOMAIN f /\ f[cp].type = "dir")
IsFile(f, cp) == cp \in DOMAIN f /\ f[cp].type = "file"

Prefixes(cp) == {SubSeq(cp, 1, n) : n \in 0..Len(cp)}

\* os.MkdirAll succeeds iff no prefix of the path is a regular file
MkdirAllOk(f, cp) == \A q \in Prefixes(cp) : ~IsFile(f, q)

\* os.MkdirAll: creates every missing prefix as a directory
MkdirAll(f, cp) ==
    LET new == {q \in Prefixes(cp) : ~Exists(f, q)}
    IN  [q \in DOMAIN f \cup new |-> IF q \in new THEN DirEntry ELSE f[q]]

\* open(O_WRONLY|O_CREATE|O_TRUNC) succeeds iff the parent is a directory and
\* the path itself is not one
OpenTruncOk(f, cp) == Len(cp) > 0 /\ ~Ancestral(cp) /\ IsDir(f, Dir(cp)) /\ ~IsDir(f, cp)

PutFile(f, cp, data, complete, digest) ==
    [q \in DOMAIN f \cup {cp} |-> IF q = cp THEN FileEntry(data, complete, digest) ELSE f[q]]

\* (mutant) a rollback: the remove takes the files next to cp with it
RemovePathWithSiblings(f, cp) ==
    [q \in {r \in DOMAIN f : ~(f[r].type = "file" /\ r # <<>> /\ cp # <<>> /\ Front(r) = Front(cp))} |-> f[q]]

\* (mutant) the deferred remove is forgotten
RemovePathNoop(f, cp) == f

\* os.Remove: removes a file or an empty directory; otherwise leaves f alone
RemovePath(f, cp) ==
    IF cp \notin DOMAIN f THEN f
    ELSE IF f[cp].type = "dir" /\ \E q \in DOMAIN f : q # cp /\ IsPrefix(cp, q) THEN f
    ELSE [q \in DOMAIN f \ {cp} |-> f[q]]

\* os.Rename(old, new) of a regular file succeeds iff old exists, the parent
\* of new is a directory and new is not a directory
RenameOk(f, old, new) ==
    /\ IsFile(f, old)
    /\ Len(new) > 0 /\ ~Ancestral(new)
    /\ IsDir(f, Dir(new))
    /\ ~IsDir(f, new)

\* os.Rename: new atomically takes old's entry, old disappears
RenamePath(f, old, new) ==
    [q \in (DOMAIN f \ {old}) \cup {new} |-> IF q = new THEN f[old] ELSE f[q]]

(***************************************************************************)
(* Digests and SHA-256.                                                    *)
(***************************************************************************)
\* the blob bodies a registry serves in the model (sequences of bytes, each
\* byte written as a two-digit hex token)
Bodies == {<<>>, <<"00">>, <<"00", "01">>}

\* hex.EncodeToString(sha256(b)): the first 8 hex digits of the real SHA-256
Sha256Hex(b) ==
    CASE b = <<>>           -> "e3b0c442"
      [] b = <<"00">>       -> "6e340b9c"
      [] b = <<"01">>       -> "4bf5122f"
      [] b = <<"00", "01">> -> "b413f47d"
      [] b = <<"00", "00">> -> "96a296d2"
      [] b = <<"01", "00">> -> "47dc540c"
      [] b = <<"01", "01">> -> "9dcf97a1"
      [] OTHER              -> "ffffffff"

\* registry.go:297  calculatedDigest := "sha256:" + hex.EncodeToString(hash.Sum(nil))
CalculatedDigest(b) == <<"sha256", ":", Sha256Hex(b)>>

\* (mutant) the rename is not guarded by the comparison
DigestMatchesAnything(calculated, expected) == TRUE

\* registry.go:298  the comparison that guards the rename
DigestMatches(calculated, expected) == calculated = expected

\* strings.ReplaceAll(digest, ":", "_")
SafeDigest(d) == [k \in 1..Len(d) |-> IF d[k] = ":" THEN "_" ELSE d[k]]

ConfigMediaType == "application/vnd.docker.container.image.v1+json"
LayerMediaType == "application/vnd.docker.image.rootfs.diff.tar.gzip"

\* registry.go:174-177
ConfigExt(mediaType) == IF mediaType # ConfigMediaType THEN ".bin" ELSE ".json"
\* registry.go:192-195
LayerExt(mediaType) == IF mediaType # LayerMediaType THEN ".bin" ELSE ".tar.gz"

\* fmt.Sprintf("config_%s%s", safeDigest, ext) / fmt.Sprintf("layer_%s%s", ...)
ConfigFileName(d, mediaType) == <<"config_">> \o SafeDigest(d) \o <<ConfigExt(mediaType)>>
LayerFileName(d, mediaType) == <<"layer_">> \o SafeDigest(d) \o <<LayerExt(mediaType)>>

(***************************************************************************)
(* The endpoint and the request URLs.                                      *)
(***************************************************************************)
BaseURL == <<"http", "://", "registry">>
Port == "5000"
OutputDir == <<"docker_dump">>

\* fmt.Sprintf("%s:%d/v2/%s/tags/list", url, port, repo)
TagsURL(repo) == BaseURL \o <<":", Port, "/v2/">> \o repo \o <<"/tags/list">>
\* fmt.Sprintf("%s:%d/v2/%s/manifests/%s", url, port, repo, tag)
ManifestURL(repo, tag) == BaseURL \o <<":", Port, "/v2/">> \o repo \o <<"/manifests/", tag>>
\* fmt.Sprintf("%s:%d/v2/%s/blobs/%s", url, port, repo, digest)
BlobURL(repo, d) == BaseURL \o <<":", Port, "/v2/">> \o repo \o <<"/blobs/">> \o d

\* filepath.Join(outputDir, repo, "manifest.json")
ManifestFile(repo) == Join3(OutputDir, repo, <<"manifest.json">>)

(***************************************************************************)
(* Manifests.  A manifest body is a sequence of JSON pieces; it parses     *)
(* iff it is "{", one object, "}".                                         *)
(***************************************************************************)
Descriptor(d, mt) == [digest |-> d, mediaType |-> mt]
NoDescriptor == Descriptor(<<>>, "")
ManifestObject(config, layers) == [config |-> config, layers |-> layers]
NoManifest == ManifestObject(NoDescriptor, <<>>)

D0 == CalculatedDigest(<<"00">>)
D01 == CalculatedDigest(<<"00", "01">>)

\* one config and two layers (the "alpine" scenario)
ManifestAlpine ==
    ManifestObject(Descriptor(D0, ConfigMediaType),
                   <<Descriptor(D01, LayerMediaType), Descriptor(D0, "application/octet-stream")>>)
\* no config digest, one layer without a digest, one layer with one
ManifestSparse ==
    ManifestObject(NoDescriptor,
                   <<Descriptor(<<>>, LayerMediaType), Descriptor(D01, LayerMediaType)>>)

\* a config whose digest string has path segments: "x/../../../loot"
ManifestHostile ==
    ManifestObject(Descriptor(<<"x", "/", "..", "/", "..", "/", "..", "/", "loot">>, ConfigMediaType),
                   <<>>)

\* the JSON text of a manifest object, as pieces
ManifestBody(name) == <<"{", name, "}">>

\* json.Unmarshal([]byte(manifestBody), &manifest) succeeds
ManifestParses(body) ==
    Len(body) = 3 /\ body[1] = "{" /\ body[3] = "}" /\ body[2] \in {"alpine.json", "sparse.json", "hostile.json"}
\* the struct json.Unmarshal fills in
ParsedManifest(body) ==
    CASE body[2] = "alpine.json" -> ManifestAlpine
      [] body[2] = "sparse.json" -> ManifestSparse
      [] body[2] = "hostile.json" -> ManifestHostile
      [] OTHER -> NoManifest

\* the manifest bodies a registry serves in the model
ManifestBodies == {ManifestBody("alpine.json"), ManifestBody("sparse.json"), <<"<html>">>}

(***************************************************************************)
(* State.                                                                  *)
(***************************************************************************)
VARIABLES
    env,         \* what the run was started with and the registry it talks to (never changes)
    fs,          \* the file system
    storeMutex,  \* utils.mutex: 0, or the goroutine inside StoreResponse
    wk,          \* the DumpRepository goroutines, in the order they were started
    main,        \* the calling goroutine: ListRepositories and DumpAllRepositories
    semaphore,   \* registry.go:102, the number of structs in the channel
    wg,          \* registry.go:101, the WaitGroup counter
    now,         \* the clock, in ticks of 1/rate second
    limiter,     \* client.go:51, Client.Limiter
    cl,          \* the goroutines calling Client.MakeRequest
    sent,        \* history: sent[t] is the number of HTTP requests sent at tick t
    admitted,    \* history: admitted[t] is the number of Limiter.Wait calls that returned at t
    tunnel,      \* the SOCKS5 slot (connManager), its sockets, the dials and the program
    endpoint,    \* a validateAndNormalizeURL call and the request URLs built from its result
    hs,          \* a connectSOCKS5 call: its attempts and the bytes exchanged with the proxy
    pool         \* the response bodies of one registry function and the transport's connections

vars == <<env, fs, storeMutex, wk, main, semaphore, wg, now, limiter, cl, sent, admitted, tunnel, endpoint, hs,
          pool>>
mainVars == <<main, semaphore, wg>>
clientVars == <<now, limiter, cl, sent, admitted, tunnel, endpoint, hs, pool>>
registryVars == <<fs, storeMutex, wk, main, semaphore, wg>>

(***************************************************************************)
(* The registry, as far as the client can tell: for each request, the set  *)
(* of outcomes it can have.  With env.faults the registry and the network  *)
(* may answer anything; without it "alpine" is served complete and intact, *)
(* "broken" has a manifest that is no JSON, and any other repository has   *)
(* no tags.                                                                *)
(***************************************************************************)
Alpine == <<"alpine">>
Broken == <<"broken">>
Empty == <<"empty">>
\* names a catalog may return: with a "/", with a ".." segment, and one whose
\* manifest has a digest with path segments
Nested == <<"library", "/", "alpine">>
Loot == <<"..", "/", "loot">>
Mirror == <<"mirror">>

TagsOutcome(err, tags) == [err |-> err, tags |-> tags]
ManifestOutcome(err, body) == [err |-> err, body |-> body]
BlobOutcome(err, data, fail) == [err |-> err, data |-> data, fail |-> fail]

\* the body served for a digest by a registry that stores what it says
BlobOf(d) == IF d = D0 THEN <<"00">> ELSE IF d = D01 THEN <<"00", "01">> ELSE <<>>

TagsOutcomes(repo) ==
    IF env.faults
    THEN {TagsOutcome(e, <<>>) : e \in {"fetch", "decode"}}
         \cup {TagsOutcome("", t) : t \in {<<>>, <<"latest", "v1">>, <<"v1", "latest">>}}
    ELSE IF repo \in {Alpine, Nested, Loot, Mirror} THEN {TagsOutcome("", <<"latest">>)}
    ELSE IF repo = Broken THEN {TagsOutcome("", <<"v1", "latest">>)}
    ELSE {TagsOutcome("", <<>>)}

ManifestOutcomes(repo, tag) ==
    IF env.faults
    THEN {ManifestOutcome(e, <<>>) : e \in {"fetch", "read"}}
         \cup {ManifestOutcome("", b) : b \in ManifestBodies}
    ELSE IF repo \in {Alpine, Nested} THEN {ManifestOutcome("", ManifestBody("alpine.json"))}
    ELSE IF repo = Mirror THEN {ManifestOutcome("", ManifestBody("hostile.json"))}
    ELSE {ManifestOutcome("", <<"<html>">>)}

BlobOutcomes(repo, d) ==
    IF env.faults
    THEN {BlobOutcome("fetch", <<>>, FALSE), BlobOutcome("", <<"00">>, TRUE)}
         \cup {BlobOutcome("", b, FALSE) : b \in Bodies}
    ELSE {BlobOutcome("", BlobOf(d), FALSE)}

\* local I/O calls (os.CreateTemp, os.WriteFile, os.Rename) can fail for reasons
\* outside the model (disk full, permissions): only with env.faults
IOFails == IF env.faults THEN BOOLEAN ELSE {FALSE}

(***************************************************************************)
(* DumpRepository, one goroutine.                                          *)
(***************************************************************************)
NoStream == [data |-> <<>>, fail |-> FALSE]

Goroutine(repo) ==
    [pc |-> "start", repo |-> repo, err |-> "", tags |-> <<>>, body |-> <<>>,
     manifest |-> NoManifest, i |-> 0, hash |-> <<>>, stream |-> NoStream,
     expected |-> <<>>, berr |-> "", reqs |-> <<>>]

\* return from DumpRepository with err ("nil" for a nil error)
Return(g, err) ==
    [g EXCEPT !.pc = "returned", !.err = err, !.body = <<>>, !.hash = <<>>,
              !.stream = NoStream, !.expected = <<>>]

\* (mutant) the layers are taken last to first
BlobDescriptorReversed(m, i) == IF i = 0 THEN m.config ELSE m.layers[Len(m.layers) + 1 - i]

\* the descriptor of blob i of a manifest: 0 is the config, k >= 1 is layer k
BlobDescriptor(m, i) == IF i = 0 THEN m.config ELSE m.layers[i]

\* (mutant) the layer loop is left after its first layer
NextBlobFirstLayerOnly(m, i) ==
    IF i = 0 /\ m.config.digest # <<>> THEN 0
    ELSE IF i <= 1 /\ Len(m.layers) >= 1 /\ m.layers[1].digest # <<>> THEN 1
    ELSE Len(m.layers) + 1

\* (mutant) a blob without a digest is requested like any other
NextBlobNoSkip(m, i) == i

RECURSIVE NextBlob(_, _)
\* registry.go:172, 189-190: the first blob at or after i whose digest is not ""
NextBlob(m, i) ==
    IF i > Len(m.layers) THEN i
    ELSE IF BlobDescriptor(m, i).digest # <<>> THEN i
    ELSE NextBlob(m, i + 1)

\* registry.go:179, 197: blobFile
BlobFile(repo, m, i) ==
    LET d == BlobDescriptor(m, i)
    IN  Join3(OutputDir, repo,
              IF i = 0 THEN ConfigFileName(d.digest, d.mediaType)
                       ELSE LayerFileName(d.digest, d.mediaType))

\* (mutant) the blob is streamed straight into its final path
TempFileInPlace(w, filename, i) == filename

\* os.CreateTemp(filepath.Dir(filename), "blob_*.tmp"): a name in that directory
\* that no other call gets (O_EXCL and a random infix); here the infix names the
\* goroutine and the blob
TempFile(w, filename, i) == Append(Dir(filename), <<"blob_", ToString(w), "_", ToString(i), ".tmp">>)

\* registry.go:125-127
DumpRepository_CreateDir(w) ==
    /\ wk[w].pc = "start"
    /\ IF MkdirAllOk(fs, Clean(OutputDir))
       THEN /\ fs' = MkdirAll(fs, Clean(OutputDir))
            /\ wk' = [wk EXCEPT ![w].pc = "tags"]
       ELSE /\ fs' = fs
            /\ wk' = [wk EXCEPT ![w] = Return(@, "output directory")]
    /\ UNCHANGED <<clientVars, env, storeMutex, mainVars>>

\* (mutant) "latest" is preferred when the list has it
SelectLatest(tags) == IF \E k \in 1..Len(tags) : tags[k] = "latest" THEN "latest" ELSE tags[1]

\* registry.go:147: tag := tags.Tags[0]
SelectTag(tags) == tags[1]

\* (mutant) an empty tag list falls back to the tag "latest"
TagsResultDefaultLatest(g, r) ==
    IF r.err = "fetch" THEN Return(g, "fetch tags")
    ELSE IF r.err = "decode" THEN Return(g, "decode tags")
    ELSE [g EXCEPT !.pc = "manifest", !.tags = IF Len(r.tags) = 0 THEN <<"latest">> ELSE r.tags]

\* registry.go:132-145: what DumpRepository does with the outcome r of the tags
\* request
TagsResult(g, r) ==
    IF r.err = "fetch" THEN Return(g, "fetch tags")
    ELSE IF r.err = "decode" THEN Return(g, "decode tags")
    ELSE IF Len(r.tags) = 0 THEN Return(g, "no tags found")
    ELSE [g EXCEPT !.pc = "manifest", !.tags = r.tags]

\* registry.go:129-148: the tags request, its decoding and the tag selection
DumpRepository_Tags(w) ==
    /\ wk[w].pc = "tags"
    /\ \E r \in TagsOutcomes(wk[w].repo) :
         LET g == [wk[w] EXCEPT !.reqs = Append(@, TagsURL(wk[w].repo))]
         IN  wk' = [wk EXCEPT ![w] = TagsResult(g, r)]
    /\ UNCHANGED <<clientVars, env, fs, storeMutex, mainVars>>

\* registry.go:149-152 and 212-226: the manifest request and io.ReadAll
getAndStoreResponse_Fetch(w) ==
    /\ wk[w].pc = "manifest"
    /\ \E r \in ManifestOutcomes(wk[w].repo, SelectTag(wk[w].tags)) :
         LET g == [wk[w] EXCEPT
                     !.reqs = Append(@, ManifestURL(wk[w].repo, SelectTag(wk[w].tags)))]
         IN  wk' = [wk EXCEPT ![w] =
                 IF r.err # "" THEN Return(g, "fetch manifest")
                 ELSE [g EXCEPT !.pc = "store", !.body = r.body]]
    /\ UNCHANGED <<clientVars, env, fs, storeMutex, mainVars>>

\* utils.go:18-27 up to the open(2) inside os.WriteFile, which truncates
StoreResponse_Open(w) ==
    /\ wk[w].pc = "store"
    /\ storeMutex = 0
    /\ LET fullPath == ManifestFile(wk[w].repo)
           made == MkdirAll(fs, Dir(fullPath))
       IN  IF ~MkdirAllOk(fs, Dir(fullPath))
           THEN /\ fs' = fs
                /\ storeMutex' = 0
                /\ wk' = [wk EXCEPT ![w] = Return(@, "fetch manifest")]
           ELSE \E ioerr \in IOFails :
                IF ioerr \/ ~OpenTruncOk(made, fullPath)
                THEN /\ fs' = made
                     /\ storeMutex' = 0
                     /\ wk' = [wk EXCEPT ![w] = Return(@, "fetch manifest")]
                ELSE /\ fs' = PutFile(made, fullPath, <<>>, wk[w].body = <<>>, <<>>)
                     /\ storeMutex' = w
                     /\ wk' = [wk EXCEPT ![w].pc = "write"]
    /\ UNCHANGED <<clientVars, env, mainVars>>

\* (mutant) the body is parsed first and stored only if it parses
StoreResponse_WriteParsed(w) ==
    /\ wk[w].pc = "write"
    /\ storeMutex = w
    /\ storeMutex' = 0
    /\ LET fullPath == ManifestFile(wk[w].repo)
           body == wk[w].body
       IN  IF ~ManifestParses(body)
           THEN /\ fs' = fs
                /\ wk' = [wk EXCEPT ![w] = Return(@, "parse manifest")]
           ELSE /\ fs' = PutFile(fs, fullPath, body, TRUE, <<>>)
                /\ wk' = [wk EXCEPT ![w] = [@ EXCEPT !.pc = "blob", !.manifest = ParsedManifest(body),
                                                      !.i = NextBlob(ParsedManifest(body), 0)]]
    /\ UNCHANGED <<clientVars, env, mainVars>>

\* utils.go:27 the write(2) inside os.WriteFile and the deferred Unlock, then
\* registry.go:157-169, the parse of the body
StoreResponse_Write(w) ==
    /\ wk[w].pc = "write"
    /\ storeMutex = w
    /\ storeMutex' = 0
    /\ LET fullPath == ManifestFile(wk[w].repo)
           body == wk[w].body
       IN  \/ /\ fs' = PutFile(fs, fullPath, body, TRUE, <<>>)
              /\ wk' = [wk EXCEPT ![w] =
                     IF ~ManifestParses(body) THEN Return(@, "parse manifest")
                     ELSE LET m == ParsedManifest(body)
                          IN  [@ EXCEPT !.pc = "blob", !.manifest = m, !.i = NextBlob(m, 0)]]
           \/ /\ TRUE \in IOFails
              /\ \E n \in 0..(Len(body) - 1) :
                   fs' = PutFile(fs, fullPath, SubSeq(body, 1, n), FALSE, <<>>)
              /\ wk' = [wk EXCEPT ![w] = Return(@, "fetch manifest")]
    /\ UNCHANGED <<clientVars, env, mainVars>>

\* (mutant) the error of the last blob is returned
DumpRepository_DoneBlobError(w) ==
    /\ wk[w].pc = "blob"
    /\ wk[w].i > Len(wk[w].manifest.layers)
    /\ wk' = [wk EXCEPT ![w] = Return(@, IF wk[w].berr \in {"", "ok"} THEN "nil" ELSE "blob")]
    /\ UNCHANGED <<clientVars, env, fs, storeMutex, mainVars>>

\* registry.go:207-208: no blob is left
DumpRepository_Done(w) ==
    /\ wk[w].pc = "blob"
    /\ wk[w].i > Len(wk[w].manifest.layers)
    /\ wk' = [wk EXCEPT ![w] = Return(@, "nil")]
    /\ UNCHANGED <<clientVars, env, fs, storeMutex, mainVars>>

\* (mutant) the error of a blob ends the run
AfterBlobAbortOnError(g) ==
    IF g.berr # "ok" THEN Return(g, "blob")
    ELSE [g EXCEPT !.pc = "blob", !.hash = <<>>, !.expected = <<>>,
                   !.i = NextBlob(g.manifest, g.i + 1)]

\* registry.go:181-185, 199-203: getAndStoreBlob has returned; its error is
\* printed, and DumpRepository goes on to the next blob that has a digest
AfterBlob(g) ==
    [g EXCEPT !.pc = "blob", !.hash = <<>>, !.expected = <<>>,
              !.i = NextBlob(g.manifest, g.i + 1)]

\* registry.go:259-276: the blob request and os.CreateTemp
getAndStoreBlob_Open(w) ==
    /\ wk[w].pc = "blob"
    /\ wk[w].i <= Len(wk[w].manifest.layers)
    /\ LET g == wk[w]
           d == BlobDescriptor(g.manifest, g.i).digest
           filename == BlobFile(g.repo, g.manifest, g.i)
           tmp == TempFile(w, filename, g.i)
           asked == [g EXCEPT !.reqs = Append(@, BlobURL(g.repo, d)), !.expected = d]
           skip(e) == AfterBlob([asked EXCEPT !.berr = e])
       IN  \E r \in BlobOutcomes(g.repo, d), ioerr \in IOFails :
             IF r.err # ""
             THEN /\ ~ioerr
                  /\ fs' = fs
                  /\ wk' = [wk EXCEPT ![w] = skip("request")]
             ELSE IF ioerr \/ ~IsDir(fs, Dir(filename))
             THEN /\ r.data = <<>> /\ ~r.fail
                  /\ fs' = fs
                  /\ wk' = [wk EXCEPT ![w] = skip("create temp")]
             ELSE /\ fs' = PutFile(fs, tmp, <<>>, FALSE, d)
                  /\ wk' = [wk EXCEPT ![w] =
                         [asked EXCEPT !.pc = "copy", !.hash = <<>>, !.berr = "",
                                      !.stream = [data |-> r.data, fail |-> r.fail]]]
    /\ UNCHANGED <<clientVars, env, storeMutex, mainVars>>

\* registry.go:287-289: io.Copy moves one byte to the temporary file and the hash
getAndStoreBlob_Copy(w) ==
    /\ wk[w].pc = "copy"
    /\ wk[w].stream.data # <<>>
    /\ LET g == wk[w]
           tmp == TempFile(w, BlobFile(g.repo, g.manifest, g.i), g.i)
           b == Head(g.stream.data)
       IN  /\ fs' = IF IsFile(fs, tmp) THEN PutFile(fs, tmp, Append(fs[tmp].data, b), FALSE, fs[tmp].digest)
                    ELSE fs
           /\ wk' = [wk EXCEPT ![w].hash = Append(@, b),
                               ![w].stream.data = Tail(@)]
    /\ UNCHANGED <<clientVars, env, storeMutex, mainVars>>

\* registry.go:290-305: the end of io.Copy, Close, the digest check and os.Rename
getAndStoreBlob_Finish(w) ==
    /\ wk[w].pc = "copy"
    /\ wk[w].stream.data = <<>>
    /\ LET g == wk[w]
           filename == BlobFile(g.repo, g.manifest, g.i)
           tmp == TempFile(w, filename, g.i)
           closed == IF IsFile(fs, tmp) THEN PutFile(fs, tmp, fs[tmp].data, TRUE, fs[tmp].digest) ELSE fs
           out(e) == [g EXCEPT !.pc = "cleanup", !.berr = e, !.stream = NoStream]
       IN  IF g.stream.fail
           THEN /\ fs' = fs
                /\ wk' = [wk EXCEPT ![w] = out("read")]
           ELSE IF ~DigestMatches(CalculatedDigest(g.hash), g.expected)
           THEN /\ fs' = closed
                /\ wk' = [wk EXCEPT ![w] = out("integrity")]
           ELSE \E ioerr \in IOFails :
                IF ioerr \/ ~RenameOk(closed, tmp, filename)
                THEN /\ fs' = closed
                     /\ wk' = [wk EXCEPT ![w] = out("rename")]
                ELSE /\ fs' = RenamePath(closed, tmp, filename)
                     /\ wk' = [wk EXCEPT ![w] = out("ok")]
    /\ UNCHANGED <<clientVars, env, storeMutex, mainVars>>

\* (mutant) the temporary file is removed after a digest mismatch only
getAndStoreBlob_CleanupMismatchOnly(w) ==
    /\ wk[w].pc = "cleanup"
    /\ LET g == wk[w]
           tmp == TempFile(w, BlobFile(g.repo, g.manifest, g.i), g.i)
       IN  /\ fs' = IF g.berr = "integrity" THEN RemovePath(fs, tmp) ELSE fs
           /\ wk' = [wk EXCEPT ![w] = AfterBlob(g)]
    /\ UNCHANGED <<clientVars, env, storeMutex, mainVars>>

\* registry.go:276: the deferred os.Remove(tmpFile.Name()), then the next blob
getAndStoreBlob_Cleanup(w) ==
    /\ wk[w].pc = "cleanup"
    /\ LET g == wk[w]
           tmp == TempFile(w, BlobFile(g.repo, g.manifest, g.i), g.i)
       IN  /\ fs' = RemovePath(fs, tmp)
           /\ wk' = [wk EXCEPT ![w] = AfterBlob(g)]
    /\ UNCHANGED <<clientVars, env, storeMutex, mainVars>>

\* the steps of the DumpRepository goroutines
DumpRepository ==
    \/ \E w \in DOMAIN wk : DumpRepository_CreateDir(w)
    \/ \E w \in DOMAIN wk : DumpRepository_Tags(w)
    \/ \E w \in DOMAIN wk : getAndStoreResponse_Fetch(w)
    \/ \E w \in DOMAIN wk : StoreResponse_Open(w)
    \/ \E w \in DOMAIN wk : StoreResponse_Write(w)
    \/ \E w \in DOMAIN wk : getAndStoreBlob_Open(w)
    \/ \E w \in DOMAIN wk : getAndStoreBlob_Copy(w)
    \/ \E w \in DOMAIN wk : getAndStoreBlob_Finish(w)
    \/ \E w \in DOMAIN wk : getAndStoreBlob_Cleanup(w)
    \/ \E w \in DOMAIN wk : DumpRepository_Done(w)

(***************************************************************************)
(* The catalog.  env.catalog is the chain of pages the registry holds:     *)
(* page k is [repos, link, next], where next is the page its Link header   *)
(* points to (0 for none) and link the form of that header.                *)
(***************************************************************************)
PageSize == "100"
RelNext == "rel=\"next\""

\* registry.go:52  fmt.Sprintf("%s:%d/v2/_catalog?n=%d", url, port, pageSize)
CatalogURL == BaseURL \o <<":", Port, "/v2/_catalog?n=", PageSize>>

\* the path and query a registry names page k >= 2 by
PagePath(k) == <<"/v2/_catalog?n=", PageSize, "&last=", ToString(k)>>
PageURL(k) == IF k = 1 THEN CatalogURL ELSE BaseURL \o <<":", Port>> \o PagePath(k)

\* the page a URL names, 0 if none (the registry answers 404)
PageAt(url) ==
    IF \E k \in 1..Len(env.catalog) : PageURL(k) = url
    THEN CHOOSE k \in 1..Len(env.catalog) : PageURL(k) = url
    ELSE 0

\* the Link header of a page: Link: <url>; rel="next", with a relative or an
\* absolute URL; <<>> when the page has none
LinkHeader(page) ==
    IF page.next = 0 THEN <<>>
    ELSE IF page.link = "relative"
         THEN <<"<">> \o PagePath(page.next) \o <<">", ";", " ", RelNext>>
         ELSE <<"<">> \o PageURL(page.next) \o <<">", ";", " ", RelNext>>

RECURSIVE TrimLeft(_, _)
TrimLeft(t, cutset) ==
    IF t # <<>> /\ Head(t) \in cutset THEN TrimLeft(Tail(t), cutset) ELSE t
RECURSIVE TrimRight(_, _)
TrimRight(t, cutset) ==
    IF t # <<>> /\ Last(t) \in cutset THEN TrimRight(Front(t), cutset) ELSE t
\* strings.Trim(t, cutset)
Trim(t, cutset) == TrimRight(TrimLeft(t, cutset), cutset)

\* strings.Contains(t, piece) for a piece that is one token
Contains(t, piece) == \E k \in 1..Len(t) : t[k] = piece
\* strings.HasPrefix(linkURL, "http")
HasPrefixHttp(t) == t # <<>> /\ t[1] \in {"http", "https"}

\* (mutant) every Link target is taken to be relative
NextURLAlwaysRelative(link) ==
    IF link = <<>> THEN <<>>
    ELSE LET parts == Split(link, ";")
         IN  IF Len(parts) > 1 /\ Contains(parts[2], RelNext)
             THEN BaseURL \o <<":", Port>> \o Trim(parts[1], {"<", ">", " "})
             ELSE <<>>

\* registry.go:70-85: the URL of the next request, <<>> for none
NextURL(link) ==
    IF link = <<>> THEN <<>>
    ELSE LET parts == Split(link, ";")
         IN  IF Len(parts) > 1 /\ Contains(parts[2], RelNext)
             THEN LET linkURL == Trim(parts[1], {"<", ">", " "})
                  IN  IF linkURL = <<>> THEN <<>>
                      ELSE IF ~HasPrefixHttp(linkURL)
                           THEN BaseURL \o <<":", Port>> \o linkURL
                           ELSE linkURL
             ELSE <<>>

CatalogOutcome(err, repos, link) == [err |-> err, repos |-> repos, link |-> link]

\* what a catalog request can come back with
CatalogOutcomes(url) ==
    LET k == PageAt(url)
    IN  IF k = 0 THEN {CatalogOutcome("fetch", <<>>, <<>>)}
        ELSE {CatalogOutcome("", env.catalog[k].repos, LinkHeader(env.catalog[k]))}
             \cup (IF env.catalogFaults
                   THEN {CatalogOutcome(e, <<>>, <<>>) : e \in {"fetch", "decode"}}
                   ELSE {})

(***************************************************************************)
(* ListRepositories, on the calling goroutine.                             *)
(***************************************************************************)
Main(pc) ==
    [pc |-> pc, nextURL |-> <<>>, allRepos |-> <<>>, pages |-> <<>>,
     repos |-> <<>>, listErr |-> "", idx |-> 0, result |-> ""]

\* registry.go:50-52
ListRepositories_Start ==
    /\ main.pc = "call list"
    /\ main' = [main EXCEPT !.pc = "list", !.nextURL = CatalogURL, !.allRepos = <<>>]
    /\ UNCHANGED <<clientVars, env, fs, storeMutex, wk, semaphore, wg>>

\* (mutant) an empty list is returned as a success
ListResultNoCheck(allRepos) == [err |-> "", repos |-> allRepos]

\* registry.go:89-92: the value ListRepositories returns, as [err, repos]
ListResult(allRepos) ==
    IF Len(allRepos) = 0 THEN [err |-> "no repositories found", repos |-> <<>>]
    ELSE [err |-> "", repos |-> allRepos]

\* (mutant) with an error the caller still gets the names gathered so far
ListReturnPartial(m, res) ==
    [m EXCEPT !.pc = IF env.caller = "dump-all" /\ res.err = "" THEN "spawn" ELSE "returned",
              !.nextURL = <<>>, !.allRepos = <<>>,
              !.listErr = res.err, !.repos = IF res.err = "" THEN res.repos ELSE m.allRepos,
              !.idx = 1,
              !.result = IF env.caller = "dump-all" /\ res.err = "" THEN "" ELSE
                         IF res.err = "" THEN "nil" ELSE res.err]

\* the caller gets ListRepositories' result: main.go -list stops there,
\* DumpAllRepositories (registry.go:96-99) returns the error or goes on
ListReturn(m, res) ==
    [m EXCEPT !.pc = IF env.caller = "dump-all" /\ res.err = "" THEN "spawn" ELSE "returned",
              !.nextURL = <<>>, !.allRepos = <<>>,
              !.listErr = res.err, !.repos = res.repos, !.idx = 1,
              !.result = IF env.caller = "dump-all" /\ res.err = "" THEN "" ELSE
                         IF res.err = "" THEN "nil" ELSE res.err]

\* the catalog requests followed in the model: more than any chain of pages
\* without a loop needs
MaxFetches == 6

\* registry.go:54-87: one pass of the loop, a catalog request and its handling
ListRepositories_Page ==
    /\ main.pc = "list"
    /\ main.nextURL # <<>>
    /\ Len(main.pages) < MaxFetches
    /\ \E r \in CatalogOutcomes(main.nextURL) :
         LET m == [main EXCEPT !.pages = Append(@, main.nextURL)]
         IN  main' =
               IF r.err = "fetch" THEN ListReturn(m, [err |-> "fetch catalog", repos |-> <<>>])
               ELSE IF r.err = "decode"
               THEN ListReturn(m, [err |-> "decode catalog", repos |-> <<>>])
               ELSE [m EXCEPT !.allRepos = @ \o r.repos, !.nextURL = NextURL(r.link)]
    /\ UNCHANGED <<clientVars, env, fs, storeMutex, wk, semaphore, wg>>

\* registry.go:54, 89-92: the loop is left, the list is returned
ListRepositories_Return ==
    /\ main.pc = "list"
    /\ main.nextURL = <<>>
    /\ main' = ListReturn(main, ListResult(main.allRepos))
    /\ UNCHANGED <<clientVars, env, fs, storeMutex, wk, semaphore, wg>>

ListRepositories ==
    \/ ListRepositories_Start
    \/ ListRepositories_Page
    \/ ListRepositories_Return

(***************************************************************************)
(* DumpAllRepositories.                                                    *)
(***************************************************************************)
\* registry.go:102  make(chan struct{}, 5)
SemaphoreCap == 5

\* (mutant) the send never blocks
SemaphoreNeverFull(n) == TRUE

\* registry.go:106: the send on the channel goes through
SemaphoreHasRoom(n) == n < SemaphoreCap

\* registry.go:104-113: wg.Add, the send on the semaphore and the go statement
DumpAllRepositories_Spawn ==
    /\ main.pc = "spawn"
    /\ main.idx <= Len(main.repos)
    /\ SemaphoreHasRoom(semaphore)
    /\ wg' = wg + 1
    /\ semaphore' = semaphore + 1
    /\ wk' = Append(wk, Goroutine(main.repos[main.idx]))
    /\ main' = [main EXCEPT !.idx = @ + 1]
    /\ UNCHANGED <<clientVars, env, fs, storeMutex>>

\* registry.go:108-112: DumpRepository has returned; its error is printed, the
\* slot is given back and wg.Done is called
Goroutine_Exit(w) ==
    /\ wk[w].pc = "returned"
    /\ env.caller = "dump-all"
    /\ wk' = [wk EXCEPT ![w].pc = "exited"]
    /\ semaphore' = semaphore - 1
    /\ wg' = wg - 1
    /\ UNCHANGED <<clientVars, env, fs, storeMutex, main>>

\* (mutant) the first pipeline error is returned
DumpAllResultFirstError(errs) ==
    IF \E w \in DOMAIN errs : errs[w] # "nil"
    THEN errs[CHOOSE w \in DOMAIN errs : errs[w] # "nil"]
    ELSE "nil"

\* registry.go:117: what DumpAllRepositories returns once the goroutines are done
DumpAllResult(errs) == "nil"

\* (mutant) wg.Wait() does not wait
WaitReturnsAtOnce(n) == TRUE

\* registry.go:116: wg.Wait() returns
WaitReturns(n) == n = 0

\* registry.go:116-117: wg.Wait() and the return
DumpAllRepositories_Wait ==
    /\ main.pc = "spawn"
    /\ main.idx > Len(main.repos)
    /\ WaitReturns(wg)
    /\ main' = [main EXCEPT !.pc = "returned",
                            !.result = DumpAllResult([w \in DOMAIN wk |-> wk[w].err])]
    /\ UNCHANGED <<clientVars, env, fs, storeMutex, wk, semaphore, wg>>

DumpAllRepositories ==
    \/ DumpAllRepositories_Spawn
    \/ \E w \in DOMAIN wk : Goroutine_Exit(w)
    \/ DumpAllRepositories_Wait

(***************************************************************************)
(* Client.MakeRequest and its rate limiter.  Time is counted in ticks of   *)
(* 1/rate second, so the limiter gains one token per tick.  The registry   *)
(* model above takes a MakeRequest call as one step with an outcome; here  *)
(* the call is taken apart.                                                *)
(***************************************************************************)
\* client.go:86, 111  rate.NewLimiter(rate.Limit(rateLimit), 1): the burst
Burst == 1

\* client.go:121  const maxRetries = 3
MaxRetries == 3

Min(a, b) == IF a < b THEN a ELSE b

\* rate.Limiter.advance: the tokens at tick t
TokensAt(lim, t) == Min(Burst, lim.tokens + (t - lim.last))

\* rate.Limiter.reserveN(t, 1): the limiter after the reservation
Reserve(lim, t) == [tokens |-> TokensAt(lim, t) - 1, last |-> t]

\* rate.Limiter.reserveN(t, 1): the tick at which the caller may act
TimeToAct(lim, t) ==
    LET left == TokensAt(lim, t) - 1
    IN  IF left < 0 THEN t - left ELSE t

\* what HTTPClient.Do comes back with: a transport error (a *url.Error, which
\* is a net.Error: "timeout" is what its Timeout() says) or a response with a
\* status and, maybe, a Www-Authenticate header
DoOutcome(err, timeout, status, challenge) ==
    [err |-> err, timeout |-> timeout, status |-> status, challenge |-> challenge]
TransportError(err, timeout) == DoOutcome(err, timeout, "", "")
Response(status, challenge) == DoOutcome(<<>>, FALSE, status, challenge)

\* the outcomes of one attempt; with env.faults every kind of transport error
\* and status
DoOutcomes ==
    {TransportError(<<"i/o timeout">>, TRUE),
     TransportError(<<"read: ", "connection reset by peer">>, FALSE),
     TransportError(<<"dial: ", "connection refused">>, FALSE),
     Response("200", ""), Response("401", "Basic realm"), Response("500", "")}
    \cup (IF env.faults
          THEN {TransportError(<<"write: ", "broken pipe">>, FALSE),
                TransportError(<<"use of closed network connection">>, FALSE),
                Response("401", ""), Response("404", "")}
          ELSE {})

\* client.go:148  err != nil
IsError(o) == o.err # <<>>

\* client.go:180-188  isConnectionClosedError
IsConnectionClosedError(err) ==
    \/ Contains(err, "use of closed network connection")
    \/ Contains(err, "connection reset by peer")
    \/ Contains(err, "broken pipe")

\* (mutant) every transport error is retried
IsTransientAlways(o) == TRUE

\* client.go:150  netErr.Timeout() || isConnectionClosedError(err)
IsTransient(o) == o.timeout \/ IsConnectionClosedError(o.err)

\* client.go:151  1<<uint(attempt-1), the seconds slept after attempt
BackoffSeconds(attempt) == 2 ^ (attempt - 1)

\* client.go:151  time.Duration(1<<uint(attempt-1)) * time.Second, in ticks
Backoff(attempt) == BackoffSeconds(attempt) * env.rate

(***************************************************************************)
(* Request headers.  A header value is a sequence of tokens; the headers   *)
(* of a request are a function from canonical header names to values.     *)
(* env.auth is the AuthConfig: username, password, bearer ("" when not     *)
(* set) and headers, [given, valid, pairs]: whether the string is not "",  *)
(* whether it is a JSON object of strings, and its key/value pairs.        *)
(***************************************************************************)
NoHeaders == [given |-> FALSE, valid |-> TRUE, pairs |-> <<>>]
AuthConfig(username, password, bearer, headers) ==
    [username |-> username, password |-> password, bearer |-> bearer, headers |-> headers]
NoAuth == AuthConfig("", "", "", NoHeaders)

\* textproto.CanonicalMIMEHeaderKey, which http.Header.Set applies to the key
CanonicalKey(k) ==
    CASE k = "authorization" -> "Authorization"
      [] k = "x-custom"      -> "X-Custom"
      [] k = "accept"        -> "Accept"
      [] OTHER               -> k

\* http.Header.Set(k, v)
SetHeader(h, k, v) ==
    [x \in DOMAIN h \cup {CanonicalKey(k)} |-> IF x = CanonicalKey(k) THEN v ELSE h[x]]

EmptyHeader == [x \in {} |-> <<>>]
UserAgent == <<"Mozilla/5.0">>

\* http.Request.SetBasicAuth: "Basic " + base64(username + ":" + password)
BasicValue(username, password) == <<"Basic ", "base64(", username, ":", password, ")">>
BearerValue(bearer) == <<"Bearer ", bearer>>

\* client.go:128-130
BaseHeaders ==
    SetHeader(SetHeader(SetHeader(EmptyHeader, "User-Agent", UserAgent),
                        "Accept", <<"application/vnd.docker.distribution.manifest.v2+json">>),
              "Connection", <<"keep-alive">>)

\* client.go:131-133
WithBasic(h, auth) ==
    IF auth.username # "" /\ auth.password # ""
    THEN SetHeader(h, "Authorization", BasicValue(auth.username, auth.password))
    ELSE h

\* client.go:134-136
WithBearer(h, auth) ==
    IF auth.bearer # "" THEN SetHeader(h, "Authorization", BearerValue(auth.bearer)) ELSE h

RECURSIVE WithPairs(_, _)
\* client.go:142-144: the custom headers are set one after the other
WithPairs(h, pairs) ==
    IF pairs = <<>> THEN h
    ELSE WithPairs(SetHeader(h, Head(pairs)[1], Head(pairs)[2]), Tail(pairs))

\* the orders in which "range customHeaders" can go through the map
Orders(pairs) ==
    {[k \in 1..Len(pairs) |-> pairs[f[k]]] :
        f \in {g \in [1..Len(pairs) -> 1..Len(pairs)] :
                  \A i, j \in 1..Len(pairs) : i # j => g[i] # g[j]}}

\* client.go:137-141: json.Unmarshal of auth.Headers fails
HeadersInvalid(auth) == auth.headers.given /\ ~auth.headers.valid

\* client.go:128-145: the header sets the request of an attempt can have
RequestHeaders(auth) ==
    LET h == WithBearer(WithBasic(BaseHeaders, auth), auth)
    IN  IF ~auth.headers.given THEN {h}
        ELSE {WithPairs(h, ps) : ps \in Orders(auth.headers.pairs)}

\* a caller of MakeRequest: where it is, when its wait ends, the attempts made
\* in this call, the outcome of the last one, the headers of the last request
\* sent, the seconds slept between the attempts, and what the call returned
\* (<<>> while it runs, <<"response">>, or the error message)
Caller ==
    [pc |-> "idle", act |-> 0, attempt |-> 0, last |-> DoOutcome(<<>>, FALSE, "", ""),
     hdr |-> EmptyHeader, slept |-> <<>>, result |-> <<>>]

\* the histories are sequences: tick t is at index t + 1
Bump(h, t) == [h EXCEPT ![t + 1] = @ + 1]

\* client.go:117: Limiter.Wait reserves a token and learns when it may go on
MakeRequest_Wait(c) ==
    /\ cl[c].pc = "idle"
    /\ limiter' = Reserve(limiter, now)
    /\ cl' = [cl EXCEPT ![c] = [Caller EXCEPT !.pc = "waiting", !.act = TimeToAct(limiter, now)]]
    /\ UNCHANGED <<registryVars, env, now, sent, admitted, tunnel, endpoint, hs, pool>>

\* (mutant) the challenge of a 401 is not put into the error
ResponseResultPlain(o) ==
    IF o.status # "200" THEN <<"unexpected status: ", o.status>> ELSE <<"response">>

\* client.go:159-177: what MakeRequest returns for a response
ResponseResult(o) ==
    IF o.status = "401" /\ o.challenge # "" THEN <<"unauthorized: ", o.challenge>>
    ELSE IF o.status # "200" THEN <<"unexpected status: ", o.status>>
    ELSE <<"response">>

\* client.go:147-177: one attempt has come back with o
AfterAttempt(g, o) ==
    IF IsError(o)
    THEN IF IsTransient(o) /\ g.attempt < MaxRetries
         THEN [g EXCEPT !.pc = "backoff", !.act = now + Backoff(g.attempt), !.last = o,
                        !.slept = Append(@, BackoffSeconds(g.attempt))]
         ELSE [g EXCEPT !.pc = "idle", !.last = o, !.result = <<"request failed: ">> \o o.err]
    ELSE [g EXCEPT !.pc = "idle", !.last = o, !.result = ResponseResult(o)]

\* client.go:123-147: one pass of the loop up to HTTPClient.Do; a headers
\* string that is no JSON ends the call before anything is sent
Attempt(c, g) ==
    IF HeadersInvalid(env.auth)
    THEN /\ cl' = [cl EXCEPT ![c] = [g EXCEPT !.pc = "idle", !.attempt = @ - 1,
                                              !.result = <<"invalid headers JSON">>]]
         /\ sent' = sent
    ELSE /\ sent' = Bump(sent, now)
         /\ \E o \in DoOutcomes, h \in RequestHeaders(env.auth) :
              cl' = [cl EXCEPT ![c] = AfterAttempt([g EXCEPT !.hdr = h], o)]

\* client.go:117-147: Wait returns and the first attempt is made
MakeRequest_Admit(c) ==
    /\ cl[c].pc = "waiting"
    /\ now >= cl[c].act
    /\ admitted' = Bump(admitted, now)
    /\ Attempt(c, [cl[c] EXCEPT !.attempt = 1])
    /\ UNCHANGED <<registryVars, env, now, limiter, tunnel, endpoint, hs, pool>>

\* (mutant) a retry waits on the limiter as the first attempt does
MakeRequest_RetryReserves(c) ==
    /\ cl[c].pc = "backoff"
    /\ now >= cl[c].act
    /\ limiter' = Reserve(limiter, now)
    /\ Attempt(c, [cl[c] EXCEPT !.attempt = @ + 1])
    /\ UNCHANGED <<registryVars, env, now, admitted, tunnel, endpoint, hs, pool>>

\* client.go:153-154, 122-147: the sleep is over and the next attempt is made
MakeRequest_Retry(c) ==
    /\ cl[c].pc = "backoff"
    /\ now >= cl[c].act
    /\ Attempt(c, [cl[c] EXCEPT !.attempt = @ + 1])
    /\ UNCHANGED <<registryVars, env, now, limiter, admitted, tunnel, endpoint, hs, pool>>

\* a goroutine whose wait or sleep is over goes on before the clock does
Due(c) == cl[c].pc \in {"waiting", "backoff"} /\ now >= cl[c].act

\* the clock advances by one tick
Tick ==
    /\ now < Len(sent) - 1
    /\ \A c \in DOMAIN cl : ~Due(c)
    /\ now' = now + 1
    /\ UNCHANGED <<registryVars, env, limiter, cl, sent, admitted, tunnel, endpoint, hs, pool>>

MakeRequest ==
    \/ \E c \in DOMAIN cl : MakeRequest_Wait(c)
    \/ \E c \in DOMAIN cl : MakeRequest_Admit(c)
    \/ \E c \in DOMAIN cl : MakeRequest_Retry(c)

(***************************************************************************)
(* The SOCKS5 tunnel (main.go).  tunnel.conn is connManager.conn, 0 for    *)
(* nil or the number of a socket; tunnel.mu is who holds connManager.mu    *)
(* ("" for nobody, a host key for the dial of that key, "main");           *)
(* tunnel.socks are the sockets connectSOCKS5 has returned, each with      *)
(* whether it was closed and the transport connections it was handed to    *)
(* and that still hold it; tunnel.dl is, for each host key of the          *)
(* transport, its dial or connection; tunnel.prog is where main is.        *)
(***************************************************************************)
\* the host keys (scheme and address) the transport has connections for
HostKeys == {"http", "https"}

Socket(holders) == [closed |-> FALSE, holders |-> holders]
Dial == [pc |-> "idle", got |-> 0, probed |-> 0, connects |-> 0, err |-> ""]

\* no proxy: nothing of this is used
NoTunnel ==
    [conn |-> 0, mu |-> "", socks |-> <<>>, dl |-> [k \in {} |-> Dial], prog |-> "",
     tries |-> 0, exit |-> "", flags |-> {}, calls |-> <<>>]

\* the sockets connectSOCKS5 establishes in a run of the model
MaxSockets == 3

\* main.go:260  connectSOCKS5(..., 3, ...) at startup
StartupRetries == 3
\* main.go:286  connectSOCKS5(..., 1, ...) in DialContext
DialRetries == 1

\* main.go:50-156: how one attempt of connectSOCKS5 can end
ConnectOutcomes == {"ok", "dial", "handshake"}

\* main.go:53-58 and the like: the attempt was the last one
LastAttempt(attempt, maxRetries) == attempt = maxRetries

\* the phases of main in which requests are made through the transport
Requesting == {"validate", "version", "list", "dumpAll", "dump"}

\* main.go:176-178: the action flags -list, -dump-all, -dump
ActionFlags == {"list", "dumpAll", "dump"}

\* (mutant) the lock is not taken
MutexIgnored(mu) == TRUE

\* sync.Mutex.Lock goes through
MutexFree(mu) == mu = ""

\* (*connManager.conn).Write([]byte{}): a socket closed on this side fails the
\* probe; one that is open passes it unless the peer has reset it
ProbeOutcomes(sock) == IF sock.closed THEN {FALSE} ELSE BOOLEAN

\* net.Conn.Close on socket n
CloseSocket(socks, n) == [socks EXCEPT ![n].closed = TRUE]

\* (mutant) the dead connection is closed but stays in the slot
DiscardKeepsSlot(t) == [t EXCEPT !.socks = CloseSocket(@, t.conn)]

\* main.go:281-282: (*connManager.conn).Close(); connManager.conn = nil
Discard(t) == [t EXCEPT !.socks = CloseSocket(@, t.conn), !.conn = 0]

\* main.go:260-266: connectSOCKS5 at startup, one attempt of its loop
Main_ConnectSOCKS5 ==
    /\ tunnel.prog = "connect"
    /\ \E o \in ConnectOutcomes :
         tunnel' =
           IF o = "ok"
           THEN [tunnel EXCEPT !.socks = Append(@, Socket({})), !.conn = Len(tunnel.socks) + 1,
                               !.prog = "validate", !.tries = @ + 1]
           ELSE IF LastAttempt(tunnel.tries + 1, StartupRetries)
           THEN [tunnel EXCEPT !.prog = "exited", !.exit = "proxy", !.tries = @ + 1]
           ELSE [tunnel EXCEPT !.tries = @ + 1]
    /\ UNCHANGED <<registryVars, env, now, limiter, cl, sent, admitted, endpoint, hs, pool>>

\* main.go:270-272: the transport dials for host key k (it has no connection
\* for k: MaxConnsPerHost is 1) and the dial takes the lock
DialContext_Lock(k) ==
    /\ tunnel.prog \in Requesting
    /\ tunnel.dl[k].pc = "idle"
    /\ MutexFree(tunnel.mu)
    /\ tunnel' = [tunnel EXCEPT !.mu = k, !.dl[k] = [Dial EXCEPT !.pc = "locked"]]
    /\ UNCHANGED <<registryVars, env, now, limiter, cl, sent, admitted, endpoint, hs, pool>>

\* main.go:275-283: the probe; the cached socket is returned, or closed and
\* dropped
DialContext_Probe(k) ==
    /\ tunnel.prog \in Requesting
    /\ tunnel.dl[k].pc = "locked"
    /\ IF tunnel.conn = 0
       THEN tunnel' = [tunnel EXCEPT !.dl[k].pc = "redial"]
       ELSE \E alive \in ProbeOutcomes(tunnel.socks[tunnel.conn]) :
              tunnel' =
                IF alive
                THEN [tunnel EXCEPT !.socks[tunnel.conn].holders = @ \cup {k},
                                    !.dl[k] = [@ EXCEPT !.pc = "connected", !.got = tunnel.conn,
                                                        !.probed = tunnel.conn],
                                    !.mu = IF @ = k THEN "" ELSE @]
                ELSE [Discard(tunnel) EXCEPT !.dl[k] = [@ EXCEPT !.pc = "redial",
                                                                !.probed = tunnel.conn]]
    /\ UNCHANGED <<registryVars, env, now, limiter, cl, sent, admitted, endpoint, hs, pool>>

\* main.go:285-292: connectSOCKS5 with one attempt, the slot is filled or the
\* dial fails; the deferred Unlock
DialContext_Connect(k) ==
    /\ tunnel.prog \in Requesting
    /\ tunnel.dl[k].pc = "redial"
    /\ \E o \in ConnectOutcomes :
         /\ o = "ok" => Len(tunnel.socks) < MaxSockets
         /\ tunnel' =
              IF o = "ok"
              THEN [tunnel EXCEPT !.socks = Append(@, Socket({k})),
                                  !.conn = Len(tunnel.socks) + 1,
                                  !.dl[k] = [@ EXCEPT !.pc = "connected", !.connects = @ + 1,
                                                      !.got = Len(tunnel.socks) + 1],
                                  !.mu = IF @ = k THEN "" ELSE @]
              ELSE [tunnel EXCEPT !.dl[k] = [@ EXCEPT !.pc = "idle", !.connects = @ + 1,
                                                      !.err = "failed to re-establish"],
                                  !.mu = IF @ = k THEN "" ELSE @]
    /\ UNCHANGED <<registryVars, env, now, limiter, cl, sent, admitted, endpoint, hs, pool>>

\* the transport closes its connection for host key k (an error, an idle
\* timeout, a response that ends the connection): it closes the socket
Transport_Close(k) ==
    /\ tunnel.prog \in Requesting
    /\ tunnel.dl[k].pc = "connected"
    /\ tunnel' = [tunnel EXCEPT !.socks[tunnel.dl[k].got] =
                                    [closed |-> TRUE, holders |-> @.holders \ {k}],
                                !.dl[k] = Dial]
    /\ UNCHANGED <<registryVars, env, now, limiter, cl, sent, admitted, endpoint, hs, pool>>

\* (mutant) a failed validation is reported and the run goes on
ValidationFailedGoesOn(t) == [t EXCEPT !.prog = "version", !.exit = "url validation"]

\* main.go:337-340: the error is printed, os.Exit(1)
ValidationFailed(t) == [t EXCEPT !.prog = "exited", !.exit = "url validation"]

\* main.go:336-340: validateAndNormalizeURL; on failure os.Exit(1)
Main_Validate ==
    /\ tunnel.prog = "validate"
    /\ \/ tunnel' = [tunnel EXCEPT !.prog = "version"]
       \/ tunnel' = ValidationFailed(tunnel)
    /\ UNCHANGED <<registryVars, env, now, limiter, cl, sent, admitted, endpoint, hs, pool>>

\* main.go:343-354: detectRegistryVersion; on failure the slot is closed
Main_Version ==
    /\ tunnel.prog = "version"
    /\ \/ tunnel' = [tunnel EXCEPT !.prog = "action"]
       \/ tunnel' = [tunnel EXCEPT !.prog = "closing", !.exit = "version detection"]
    /\ UNCHANGED <<registryVars, env, now, limiter, cl, sent, admitted, endpoint, hs, pool>>

\* main.go:357-365: no action flag; on none os.Exit(1)
Main_Action ==
    /\ tunnel.prog = "action"
    /\ tunnel' = IF tunnel.flags # {} THEN [tunnel EXCEPT !.prog = "mkdir"]
                 ELSE [tunnel EXCEPT !.prog = "exited", !.exit = "no action"]
    /\ UNCHANGED <<registryVars, env, now, limiter, cl, sent, admitted, endpoint, hs, pool>>

\* main.go:368-371: os.MkdirAll(*outputDir); on failure os.Exit(1)
Main_MkdirAll ==
    /\ tunnel.prog = "mkdir"
    /\ \/ tunnel' = [tunnel EXCEPT !.prog = "list"]
       \/ tunnel' = [tunnel EXCEPT !.prog = "exited", !.exit = "output directory"]
    /\ UNCHANGED <<registryVars, env, now, limiter, cl, sent, admitted, endpoint, hs, pool>>

\* main.go:383, 449, 464: `if *list`, `if *dumpAll`, `if *dump != ""`, one after
\* the other: the call is made if its flag is set; its error ends the run
\* through the closing block, otherwise main goes on to next
RunAction(t, flag, call, ok, next) ==
    IF flag \notin t.flags THEN [t EXCEPT !.prog = next]
    ELSE IF ok THEN [t EXCEPT !.prog = next, !.calls = Append(@, call)]
    ELSE [t EXCEPT !.prog = "closing", !.exit = "list or dump", !.calls = Append(@, call)]

\* main.go:383-446: -list
Main_List ==
    /\ tunnel.prog = "list"
    /\ \E ok \in BOOLEAN : tunnel' = RunAction(tunnel, "list", "ListRepositories", ok, "dumpAll")
    /\ UNCHANGED <<registryVars, env, now, limiter, cl, sent, admitted, endpoint, hs, pool>>

\* main.go:449-461: -dump-all
Main_DumpAll ==
    /\ tunnel.prog = "dumpAll"
    /\ \E ok \in BOOLEAN : tunnel' = RunAction(tunnel, "dumpAll", "DumpAllRepositories", ok, "dump")
    /\ UNCHANGED <<registryVars, env, now, limiter, cl, sent, admitted, endpoint, hs, pool>>

\* main.go:464-477: -dump
Main_Dump ==
    /\ tunnel.prog = "dump"
    /\ \E ok \in BOOLEAN :
         tunnel' = LET t == RunAction(tunnel, "dump", "DumpRepository", ok, "closing")
                   IN  IF t.prog = "closing" /\ t.exit = "" THEN [t EXCEPT !.exit = "done"] ELSE t
    /\ UNCHANGED <<registryVars, env, now, limiter, cl, sent, admitted, endpoint, hs, pool>>

\* main.go:383-477: the list and dump actions
Main_Run == Main_List \/ Main_DumpAll \/ Main_Dump

\* main.go:347-353, 402-408, 453-459, 468-474, 480-485: under the lock, the
\* socket in the slot is closed and the slot emptied; then the program ends
Main_Close ==
    /\ tunnel.prog = "closing"
    /\ MutexFree(tunnel.mu)
    /\ tunnel' = IF tunnel.conn # 0 THEN [Discard(tunnel) EXCEPT !.prog = "exited"]
                 ELSE [tunnel EXCEPT !.prog = "exited"]
    /\ UNCHANGED <<registryVars, env, now, limiter, cl, sent, admitted, endpoint, hs, pool>>

DialContext ==
    \/ \E k \in HostKeys : DialContext_Lock(k)
    \/ \E k \in HostKeys : DialContext_Probe(k)
    \/ \E k \in HostKeys : DialContext_Connect(k)
    \/ \E k \in HostKeys : Transport_Close(k)

(***************************************************************************)
(* validateAndNormalizeURL and testURL (main.go).  A URL is the sequence   *)
(* of its tokens: <<"http", "://", "registry", ":", "5001", "/v2/">>.      *)
(***************************************************************************)
\* no validateAndNormalizeURL call is modelled
NoEndpoint == [pc |-> ""]

\* no connectSOCKS5 call is modelled
NoHandshake == [pc |-> ""]

\* no HTTP exchange is modelled
NoPool == [pc |-> ""]

\* fmt's %d and strconv.Itoa on the ports of the model
Itoa(n) == CASE n = 0 -> "0" [] n = 5000 -> "5000" [] n = 5001 -> "5001" [] OTHER -> "?"

\* strconv.Atoi on a port text that url.Parse has accepted
Atoi(t) == CASE t = "0" -> 0 [] t = "5000" -> 5000 [] t = "5001" -> 5001 [] OTHER -> -1

\* net/url validOptionalPort: digits only
IsPortText(t) == t \in {"0", "5000", "5001"}

\* net/url getScheme: the scheme is lower-cased
Lower(t) == CASE t = "HTTP" -> "http" [] t = "HTTPS" -> "https" [] OTHER -> t

\* a token that starts a path
IsPathToken(t) == t \in {"/", "/v2/", "/v2/_catalog?n=100", "/v2/alpine/tags/list"}

RECURSIVE TrimRightSlash(_)
\* strings.TrimRight(inputURL, "/")
TrimRightSlash(raw) ==
    IF raw # <<>> /\ raw[Len(raw)] = "/" THEN TrimRightSlash(SubSeq(raw, 1, Len(raw) - 1)) ELSE raw

RECURSIVE AuthorityLen(_, _)
\* the tokens of rest up to the first path token are the authority
AuthorityLen(rest, i) ==
    IF i > Len(rest) \/ IsPathToken(rest[i]) THEN i - 1 ELSE AuthorityLen(rest, i + 1)

URL(err, scheme, opaque, host, path) ==
    [err |-> err, scheme |-> scheme, opaque |-> opaque, host |-> host, path |-> path]

\* net/url Parse: scheme://authority path, scheme:opaque, or a bare path; the
\* authority is kept whole in Host, and what follows its last colon must be a
\* port
UrlParse(raw) ==
    IF Len(raw) >= 2 /\ raw[2] = "://"
    THEN LET rest == SubSeq(raw, 3, Len(raw))
             n == AuthorityLen(rest, 1)
             host == SubSeq(rest, 1, n)
         IN  IF n >= 2 /\ host[n - 1] = ":" /\ ~IsPortText(host[n])
             THEN URL(TRUE, "", <<>>, <<>>, <<>>)
             ELSE URL(FALSE, Lower(raw[1]), <<>>, host, SubSeq(rest, n + 1, Len(rest)))
    ELSE IF Len(raw) >= 2 /\ raw[2] = ":"
    THEN URL(FALSE, Lower(raw[1]), SubSeq(raw, 3, Len(raw)), <<>>, <<>>)
    ELSE URL(FALSE, "", <<>>, <<>>, raw)

\* URL.Port(): what follows the last colon of Host
UrlPort(u) ==
    LET n == Len(u.host) IN IF n >= 2 /\ u.host[n - 1] = ":" THEN u.host[n] ELSE ""

\* URL.Hostname(): Host without its last colon and port
Hostname(u) ==
    LET n == Len(u.host) IN IF n >= 2 /\ u.host[n - 1] = ":" THEN SubSeq(u.host, 1, n - 2) ELSE u.host

\* URL.String()
UrlString(u) ==
    IF u.scheme = "" THEN u.path
    ELSE IF u.opaque # <<>> THEN <<u.scheme, ":">> \o u.opaque
    ELSE <<u.scheme, "://">> \o u.host \o u.path

\* fmt.Sprintf("%s:%d<path>", base, port): main.go 539, 548, 563 and
\* registry.go 52, 129, 149, 173
EndpointURL(base, port, path) == base \o <<":", Itoa(port), path>>

\* (mutant) the port of the URL is ignored
EndpointPortFlagOnly(build, u, defaultPort) == defaultPort

\* part_001 523-530: the port of the URL if it has one, otherwise -port;
\* src/main.go has no such lines: always -port
EndpointPort(build, u, defaultPort) ==
    IF build = "part_001" /\ UrlPort(u) # "" THEN Atoi(UrlPort(u)) ELSE defaultPort

\* part_001 249-258: the address the SOCKS5 tunnel is made to
TargetPort(raw, defaultPort) ==
    LET u == UrlParse(raw) IN IF ~u.err /\ UrlPort(u) # "" THEN Atoi(UrlPort(u)) ELSE defaultPort

\* (mutant) the probe takes any answer, and no answer, for a registry
TestURLAnything(e, url) == {TRUE}

\* testURL: the GET of url is answered with 200 or 401.  Directly, the
\* transport dials Hostname:Port of the URL, which is the registry only if
\* the authority is the host and one port, the one it listens on; through the
\* SOCKS5 tunnel the dial goes to the tunnel's target whatever the URL says,
\* and a server may or may not answer a request whose Host names two ports
TestURL(e, url) ==
    LET u == UrlParse(url)
    IN  IF u.err \/ e.serves.scheme # u.scheme THEN {FALSE}
        ELSE IF e.socks
        THEN IF TargetPort(e.raw, e.flagPort) # e.serves.port THEN {FALSE}
             ELSE IF Hostname(u) = <<"registry">> THEN {TRUE}
             ELSE BOOLEAN
        ELSE {Hostname(u) = <<"registry">> /\ Atoi(UrlPort(u)) = e.serves.port}

\* the return of validateAndNormalizeURL
Validated(e, base, port) == [e EXCEPT !.pc = "done", !.base = base, !.port = port]
Rejected(e, err) == [e EXCEPT !.pc = "failed", !.err = err]

\* main.go 516-532, 559-561: trim, parse, the port, the scheme
Validate_Parse ==
    /\ endpoint.pc = "start"
    /\ LET in == TrimRightSlash(endpoint.raw)
           u == UrlParse(in)
           port == EndpointPort(endpoint.build, u, endpoint.flagPort)
           e == [endpoint EXCEPT !.u = u, !.port = port]
       IN  endpoint' =
             IF u.err THEN Rejected(endpoint, "invalid URL format")
             ELSE IF u.scheme = ""
             THEN [e EXCEPT !.pc = "http", !.domain = IF UrlString(u) = <<>> THEN in ELSE UrlString(u)]
             ELSE IF u.scheme \notin {"http", "https"} THEN Rejected(e, "unsupported scheme")
             ELSE [e EXCEPT !.pc = "test"]
    /\ UNCHANGED <<registryVars, env, now, limiter, cl, sent, admitted, tunnel, hs, pool>>

\* main.go 538-545: the http probe of a URL without scheme
Validate_TryHTTP ==
    /\ endpoint.pc = "http"
    /\ LET url == EndpointURL(<<"http", "://">> \o endpoint.domain, endpoint.port, "/v2/")
           e == [endpoint EXCEPT !.tested = Append(@, url)]
       IN  \E ok \in TestURL(endpoint, url) :
             endpoint' = IF ok THEN Validated(e, <<"http", "://">> \o endpoint.domain, endpoint.port)
                         ELSE [e EXCEPT !.pc = "https"]
    /\ UNCHANGED <<registryVars, env, now, limiter, cl, sent, admitted, tunnel, hs, pool>>

\* main.go 547-556: the https probe
Validate_TryHTTPS ==
    /\ endpoint.pc = "https"
    /\ LET url == EndpointURL(<<"https", "://">> \o endpoint.domain, endpoint.port, "/v2/")
           e == [endpoint EXCEPT !.tested = Append(@, url)]
       IN  \E ok \in TestURL(endpoint, url) :
             endpoint' = IF ok THEN Validated(e, <<"https", "://">> \o endpoint.domain, endpoint.port)
                         ELSE Rejected(e, "not reachable on HTTP or HTTPS")
    /\ UNCHANGED <<registryVars, env, now, limiter, cl, sent, admitted, tunnel, hs, pool>>

\* main.go 563-568: the probe of a URL with scheme
Validate_Test ==
    /\ endpoint.pc = "test"
    /\ LET base == UrlString(endpoint.u)
           url == EndpointURL(base, endpoint.port, "/v2/")
           e == [endpoint EXCEPT !.tested = Append(@, url)]
       IN  \E ok \in TestURL(endpoint, url) :
             endpoint' = IF ok THEN Validated(e, base, endpoint.port)
                         ELSE Rejected(e, "not reachable")
    /\ UNCHANGED <<registryVars, env, now, limiter, cl, sent, admitted, tunnel, hs, pool>>

\* registry.go 52, 129: the request URLs made from the validated base and port
Registry_RequestURLs ==
    /\ endpoint.pc = "done"
    /\ endpoint' = [endpoint EXCEPT !.pc = "requested",
                      !.urls = <<EndpointURL(endpoint.base, endpoint.port, "/v2/_catalog?n=100"),
                                 EndpointURL(endpoint.base, endpoint.port, "/v2/alpine/tags/list")>>]
    /\ UNCHANGED <<registryVars, env, now, limiter, cl, sent, admitted, tunnel, hs, pool>>

(***************************************************************************)
(* SpecEndpoint: one validateAndNormalizeURL call for each -url and -port, in   *)
(* either build of main, directly or through the SOCKS5 tunnel, against a  *)
(* registry that listens on one scheme and port or on none, and then the   *)
(* request URLs of the registry functions.                                 *)
(***************************************************************************)
\* the values of -url
InputURLs ==
    {s \o <<"registry">> \o q \o t :
        s \in {<<>>, <<"http", "://">>, <<"HTTPS", "://">>, <<"ftp", "://">>},
        q \in {<<>>, <<":", "5001">>, <<":", "0">>},
        t \in {<<>>, <<"/">>}}

\* the values of -port
FlagPorts == {0, 5000}

\* what the registry listens on: a TCP port is positive
Listeners ==
    {[scheme |-> sc, port |-> q] : sc \in {"http", "https"}, q \in {5000, 5001}}
    \cup {[scheme |-> "", port |-> 0]}

InitEndpoint ==
    /\ env = [faults |-> FALSE, catalogFaults |-> FALSE, catalog |-> <<>>, caller |-> "main",
              rate |-> 1, auth |-> NoAuth]
    /\ fs = << >>
    /\ storeMutex = 0
    /\ wk = <<>>
    /\ main = Main("idle")
    /\ semaphore = 0
    /\ wg = 0
    /\ now = 0
    /\ limiter = [tokens |-> Burst, last |-> 0]
    /\ cl = <<>>
    /\ sent = <<0>>
    /\ admitted = <<0>>
    /\ tunnel = NoTunnel
    /\ hs = NoHandshake
    /\ pool = NoPool
    /\ \E raw \in InputURLs, fp \in FlagPorts, l \in Listeners, b \in {"main.go", "part_001"},
          sk \in BOOLEAN :
         /\ sk => b = "part_001" /\ TargetPort(raw, fp) = l.port
         /\ endpoint = [pc |-> "start", build |-> b, socks |-> sk, serves |-> l, raw |-> raw,
                        flagPort |-> fp, u |-> URL(FALSE, "", <<>>, <<>>, <<>>), domain |-> <<>>,
                        port |-> 0, base |-> <<>>, err |-> "", tested |-> <<>>, urls |-> <<>>]

NextEndpoint ==
    \/ Validate_Parse
    \/ Validate_TryHTTP
    \/ Validate_TryHTTPS
    \/ Validate_Test
    \/ Registry_RequestURLs

SpecEndpoint == InitEndpoint /\ [][NextEndpoint]_vars

(***************************************************************************)
(* connectSOCKS5 (main.go 43-159), byte by byte.  A message is the         *)
(* sequence of its bytes; a string is the sequence of its characters'      *)
(* codes.                                                                  *)
(***************************************************************************)
\* []byte(s) of the names of the model
Bytes(name) ==
    CASE name = "reg" -> <<114, 101, 103>>
      [] name = "10.0.0.1" -> <<49, 48, 46, 48, 46, 48, 46, 49>>
      [] name = "u" -> <<117>>
      [] name = "pw" -> <<112, 119>>
      [] OTHER -> <<>>

\* byte(n)
Byte(n) == n % 256

\* net.SplitHostPort(targetAddr): host, colon, port, and nothing else
SplitHostPort(addr) ==
    IF Len(addr) = 3 /\ addr[2] = ":" THEN [err |-> FALSE, host |-> addr[1], port |-> addr[3]]
    ELSE [err |-> TRUE, host |-> "", port |-> ""]

\* main.go 66-70: 0x05, the number of methods, no-auth and, with a user name
\* and a password, username/password
Greeting(username, password) ==
    LET authMethods == IF username # "" /\ password # "" THEN <<0, 2>> ELSE <<0>>
    IN  <<5, Byte(Len(authMethods))>> \o authMethods

\* main.go 89-94: the username/password request
Credentials(username, password) ==
    <<1, Byte(Len(Bytes(username)))>> \o Bytes(username)
    \o <<Byte(Len(Bytes(password)))>> \o Bytes(password)

\* main.go 130-133: CONNECT, address type domain name, the host as text, the
\* port in two bytes
ConnectRequest(host, port) ==
    <<5, 1, 0, 3, Byte(Len(Bytes(host)))>> \o Bytes(host)
    \o <<Byte(Atoi(port) \div 256), Byte(Atoi(port))>>

\* what io.ReadFull gives: an error or the bytes
Read(err, bytes) == [err |-> err, bytes |-> bytes]

\* the replies a proxy may give to the greeting, to the credentials and to
\* the CONNECT request; io.ReadFull fails when the bytes do not come in time
MethodReplies == {Read(TRUE, <<0, 0>>), Read(FALSE, <<5, 0>>), Read(FALSE, <<5, 2>>),
                  Read(FALSE, <<5, 255>>), Read(FALSE, <<4, 0>>), Read(FALSE, <<4, 2>>)}
AuthReplies == {Read(TRUE, <<0, 0>>), Read(FALSE, <<1, 0>>), Read(FALSE, <<1, 1>>),
                Read(FALSE, <<0, 0>>)}
ConnectReplies ==
    {Read(TRUE, <<0, 0, 0, 0, 0, 0, 0, 0, 0, 0>>),
     Read(FALSE, <<5, 0, 0, 1, 0, 0, 0, 0, 0, 0>>),
     Read(FALSE, <<5, 4, 0, 1, 0, 0, 0, 0, 0, 0>>),
     Read(FALSE, <<5, 5, 0, 1, 0, 0, 0, 0, 0, 0>>)}

\* (mutant) the version byte of the method reply is not looked at
MethodReplyAnyVersion(r) ==
    IF r.err THEN "fail"
    ELSE IF r.bytes[2] = 2 THEN "creds"
    ELSE IF r.bytes[2] # 0 THEN "fail"
    ELSE "connect"

\* main.go 81-88, 114-121: what follows the method reply
MethodReply(r) ==
    IF r.err \/ r.bytes[1] # 5 THEN "fail"
    ELSE IF r.bytes[2] = 2 THEN "creds"
    ELSE IF r.bytes[2] # 0 THEN "fail"
    ELSE "connect"

\* main.go 106: the credentials were accepted
AuthReplyOk(r) == ~r.err /\ r.bytes[2] = 0

\* (mutant) any connect reply that comes is taken for a success
ConnectReplyAnyStatus(r) == ~r.err

\* main.go 146: the CONNECT succeeded
ConnectReplyOk(r) == ~r.err /\ r.bytes[2] = 0

\* conn.Close() of the attempt's connection, if the dial had given one
Closed(h) ==
    IF h.conn = "open" THEN [h EXCEPT !.conn = "closed", !.closes = @ + 1] ELSE h

\* (mutant) the connection of a failed attempt is left open
AttemptFailedLeavesOpen(h, err) ==
    IF LastAttempt(h.attempt, h.maxRetries)
    THEN [h EXCEPT !.pc = "returned", !.result = err]
    ELSE [h EXCEPT !.pc = "dial", !.attempt = @ + 1, !.slept = Append(@, h.attempt)]

\* (mutant) no wait between the attempts
AttemptFailedNoSleep(h, err) ==
    IF LastAttempt(h.attempt, h.maxRetries)
    THEN [Closed(h) EXCEPT !.pc = "returned", !.result = err]
    ELSE [Closed(h) EXCEPT !.pc = "dial", !.attempt = @ + 1]

\* the failure of an attempt, the same at every stage (main.go 55-60, 73-78,
\* ...): the connection is closed; at the last attempt the error is returned,
\* otherwise time.Sleep(attempt seconds) and the next attempt
AttemptFailed(h, err) ==
    IF LastAttempt(h.attempt, h.maxRetries)
    THEN [Closed(h) EXCEPT !.pc = "returned", !.result = err]
    ELSE [Closed(h) EXCEPT !.pc = "dial", !.attempt = @ + 1, !.slept = Append(@, h.attempt)]

\* conn.Write(msg) went through: the proxy has the message (log: what went
\* over the connections, in order, each entry with the attempt it belongs to)
Wrote(h, msg) ==
    [h EXCEPT !.log = Append(@, [attempt |-> h.attempt, dir |-> "write", err |-> FALSE,
                                 bytes |-> msg])]

\* io.ReadFull(conn, resp) returned r
Got(h, r) ==
    [h EXCEPT !.log = Append(@, [attempt |-> h.attempt, dir |-> "read", err |-> r.err,
                                 bytes |-> r.bytes])]

\* main.go 53-64: dialer.Dial("tcp", proxyHost) and the read deadline of 10 s.
\* hs.conn is the connection of the attempt, hs.conns and hs.closes count the
\* connections the dials gave and the Close calls, hs.deadline is the read
\* deadline of the connection
Socks_Dial ==
    /\ hs.pc = "dial"
    /\ \E ok \in BOOLEAN :
         hs' = IF ok THEN [hs EXCEPT !.pc = "greet", !.conn = "open", !.conns = @ + 1,
                                     !.deadline = "10s"]
               ELSE AttemptFailed(hs, "failed to connect to SOCKS5 proxy")
    /\ UNCHANGED <<registryVars, env, now, limiter, cl, sent, admitted, tunnel, endpoint, pool>>

\* main.go 66-78: the greeting
Socks_Greeting ==
    /\ hs.pc = "greet"
    /\ \E ok \in BOOLEAN :
         hs' = IF ok THEN [Wrote(hs, Greeting(hs.username, hs.password)) EXCEPT !.pc = "method"]
               ELSE AttemptFailed(hs, "SOCKS5 handshake failed (write auth methods)")
    /\ UNCHANGED <<registryVars, env, now, limiter, cl, sent, admitted, tunnel, endpoint, pool>>

\* main.go 79-88, 114-121: the method reply
Socks_MethodReply ==
    /\ hs.pc = "method"
    /\ \E r \in MethodReplies :
         hs' = IF MethodReply(r) = "fail"
               THEN AttemptFailed(Got(hs, r),
                                  IF r.err \/ r.bytes[1] # 5
                                  THEN "SOCKS5 handshake failed (read auth response)"
                                  ELSE "SOCKS5 no acceptable auth methods")
               ELSE [Got(hs, r) EXCEPT !.pc = MethodReply(r)]
    /\ UNCHANGED <<registryVars, env, now, limiter, cl, sent, admitted, tunnel, endpoint, pool>>

\* main.go 89-103: the credentials
Socks_Credentials ==
    /\ hs.pc = "creds"
    /\ \E ok \in BOOLEAN :
         hs' = IF ok THEN [Wrote(hs, Credentials(hs.username, hs.password)) EXCEPT !.pc = "auth"]
               ELSE AttemptFailed(hs, "SOCKS5 auth failed (write credentials)")
    /\ UNCHANGED <<registryVars, env, now, limiter, cl, sent, admitted, tunnel, endpoint, pool>>

\* main.go 104-113: the reply to the credentials
Socks_AuthReply ==
    /\ hs.pc = "auth"
    /\ \E r \in AuthReplies :
         hs' = IF AuthReplyOk(r) THEN [Got(hs, r) EXCEPT !.pc = "connect"]
               ELSE AttemptFailed(Got(hs, r), "SOCKS5 authentication failed (read auth response)")
    /\ UNCHANGED <<registryVars, env, now, limiter, cl, sent, admitted, tunnel, endpoint, pool>>

\* main.go 124-143: the CONNECT request; a target address that does not split
\* ends the call at once
Socks_Connect ==
    /\ hs.pc = "connect"
    /\ LET a == SplitHostPort(hs.targetAddr)
       IN  IF a.err
           THEN hs' = [Closed(hs) EXCEPT !.pc = "returned", !.result = "invalid target address"]
           ELSE \E ok \in BOOLEAN :
                  hs' = IF ok THEN [Wrote(hs, ConnectRequest(a.host, a.port)) EXCEPT !.pc = "reply"]
                        ELSE AttemptFailed(hs, "failed to send SOCKS5 connect request")
    /\ UNCHANGED <<registryVars, env, now, limiter, cl, sent, admitted, tunnel, endpoint, pool>>

\* main.go 144-157: the connect reply; on success the read deadline is
\* cleared and the connection is returned
Socks_ConnectReply ==
    /\ hs.pc = "reply"
    /\ \E r \in ConnectReplies :
         hs' = IF ConnectReplyOk(r)
               THEN [Got(hs, r) EXCEPT !.pc = "returned", !.result = "conn", !.deadline = "none"]
               ELSE AttemptFailed(Got(hs, r), "SOCKS5 connect request failed")
    /\ UNCHANGED <<registryVars, env, now, limiter, cl, sent, admitted, tunnel, endpoint, pool>>

(***************************************************************************)
(* SpecSocks: one connectSOCKS5 call, at startup (3 attempts) or inside    *)
(* the dial function (1 attempt), with or without proxy credentials, to a  *)
(* proxy that may answer anything.                                         *)
(***************************************************************************)
\* the values of targetAddr: a name, an IP literal, and one that does not split
TargetAddrs ==
    {<<"reg", ":", "5000">>, <<"10.0.0.1", ":", "5001">>, <<"reg", ":", "5001", ":", "5000">>}

InitSocks ==
    /\ env = [faults |-> FALSE, catalogFaults |-> FALSE, catalog |-> <<>>, caller |-> "main",
              rate |-> 1, auth |-> NoAuth]
    /\ fs = << >>
    /\ storeMutex = 0
    /\ wk = <<>>
    /\ main = Main("idle")
    /\ semaphore = 0
    /\ wg = 0
    /\ now = 0
    /\ limiter = [tokens |-> Burst, last |-> 0]
    /\ cl = <<>>
    /\ sent = <<0>>
    /\ admitted = <<0>>
    /\ tunnel = NoTunnel
    /\ endpoint = NoEndpoint
    /\ pool = NoPool
    /\ \E site \in {"main", "DialContext"}, u \in {"", "u"}, pw \in {"", "pw"},
          t \in TargetAddrs :
         hs = [pc |-> "dial", site |-> site,
               maxRetries |-> IF site = "main" THEN StartupRetries ELSE DialRetries,
               username |-> u, password |-> pw,
               targetAddr |-> t, attempt |-> 1, conn |-> "", conns |-> 0, closes |-> 0,
               deadline |-> "", log |-> <<>>,
               slept |-> <<>>, result |-> ""]

NextSocks ==
    \/ Socks_Dial
    \/ Socks_Greeting
    \/ Socks_MethodReply
    \/ Socks_Credentials
    \/ Socks_AuthReply
    \/ Socks_Connect
    \/ Socks_ConnectReply

SpecSocks == InitSocks /\ [][NextSocks]_vars

(***************************************************************************)
(* Response bodies and the connections of the transport.  pool.bodies are  *)
(* the bodies of the 200 responses MakeRequest has returned, in order:     *)
(* contentLength is resp.ContentLength (-1 when the length is not known);  *)
(* wrapped, whether MakeRequest replaced resp.Body; eof, whether the       *)
(* body of the transport has been read to its end; closed, whether Close   *)
(* was called on the body of the transport; closeCalled, whether the       *)
(* caller called resp.Body.Close(); holds, whether the response still      *)
(* occupies its connection.  net/http gives a connection back when the     *)
(* body of the transport is read to its end or closed.                     *)
(***************************************************************************)
\* client.go:66, 97; main.go:201  MaxConnsPerHost: 1
MaxConnsPerHost == 1

\* the requests one function makes in the model
MaxRequests == 3

\* resp.ContentLength of a 200 response: not known, none, some
ContentLengths == {-1, 0, 7}

\* client.go:171-173: the body MakeRequest returns
ResponseBody(contentLength) ==
    [contentLength |-> contentLength, wrapped |-> contentLength > 0,
     eof |-> contentLength = 0, closed |-> FALSE, closeCalled |-> FALSE,
     holds |-> contentLength # 0]

\* the connections that responses occupy
InUse(p) == Cardinality({b \in DOMAIN p.bodies : p.bodies[b].holds})

\* a read of resp.Body came to the end of the body of the transport
ReadToEOF(b) == [b EXCEPT !.eof = TRUE, !.holds = FALSE]

\* resp.Body.Close(): io.NopCloser's Close does nothing (client.go:172);
\* otherwise it is the Close of the body of the transport
CloseBody(b) ==
    IF b.wrapped THEN [b EXCEPT !.closeCalled = TRUE]
    ELSE [b EXCEPT !.closeCalled = TRUE, !.closed = TRUE, !.holds = FALSE]

\* the deferred Close calls of a function that returns
RECURSIVE RunDeferred(_, _)
RunDeferred(bodies, deferred) ==
    IF deferred = <<>> THEN bodies
    ELSE RunDeferred([bodies EXCEPT ![deferred[Len(deferred)]] = CloseBody(@)],
                     SubSeq(deferred, 1, Len(deferred) - 1))

\* how the function reads the n-th body: ListRepositories (registry.go:64)
\* and the tags of DumpRepository (140) decode one JSON value, the manifest
\* is read with io.ReadAll (223), a blob with io.Copy (289)
Reader(fn, n) ==
    IF fn = "ListRepositories" \/ n = 1 THEN "Decode" ELSE IF n = 2 THEN "ReadAll" ELSE "Copy"

\* what a read can come to: an error or not, the end of the body or not.  A
\* decoder stops after one value, wherever the body ends; io.ReadAll and
\* io.Copy stop at the end of the body or at an error
ReadOutcomes(reader) ==
    IF reader = "Decode" THEN [err : BOOLEAN, eof : BOOLEAN]
    ELSE {[err |-> FALSE, eof |-> TRUE], [err |-> TRUE, eof |-> FALSE]}

\* MakeRequest behind the transport: with every connection of the host
\* occupied the request waits (until Client.Timeout, client.go:108);
\* otherwise it fails, or a 200 response comes with its body
Pool_MakeRequest ==
    /\ pool.pc = "request"
    /\ Len(pool.bodies) < MaxRequests
    /\ IF InUse(pool) >= MaxConnsPerHost
       THEN pool' = [pool EXCEPT !.pc = "waiting"]
       ELSE \/ pool' = [pool EXCEPT !.pc = "return", !.err = "request failed"]
            \/ \E n \in ContentLengths :
                 pool' = [pool EXCEPT !.pc = "read", !.bodies = Append(@, ResponseBody(n)),
                                      !.deferred = IF pool.fn = "DumpRepository" /\ pool.bodies = <<>>
                                                   THEN <<1>> ELSE @]
    /\ UNCHANGED <<registryVars, env, now, limiter, cl, sent, admitted, tunnel, endpoint, hs>>

\* client.go:108, 148-156: the request that waited for a connection fails
\* when the client's timeout is over
Pool_Timeout ==
    /\ pool.pc = "waiting"
    /\ pool' = [pool EXCEPT !.pc = "return", !.err = "request failed", !.waited = TRUE]
    /\ UNCHANGED <<registryVars, env, now, limiter, cl, sent, admitted, tunnel, endpoint, hs>>

\* registry.go:64-67, 86: ListRepositories decodes a page and closes its body
ListRepositories_Decode ==
    /\ pool.pc = "read" /\ pool.fn = "ListRepositories"
    /\ LET n == Len(pool.bodies)
       IN  \E o \in ReadOutcomes(Reader(pool.fn, n)), more \in BOOLEAN :
             LET read == IF o.eof THEN ReadToEOF(pool.bodies[n]) ELSE pool.bodies[n]
                 bodies == [pool.bodies EXCEPT ![n] = CloseBody(read)]
             IN  pool' = IF o.err
                         THEN [pool EXCEPT !.pc = "return", !.bodies = bodies,
                                           !.err = "failed to decode catalog"]
                         ELSE IF more /\ n < MaxRequests
                         THEN [pool EXCEPT !.pc = "request", !.bodies = bodies]
                         ELSE [pool EXCEPT !.pc = "return", !.bodies = bodies]
    /\ UNCHANGED <<registryVars, env, now, limiter, cl, sent, admitted, tunnel, endpoint, hs>>

\* registry.go:135-145: DumpRepository decodes the tags; the Close of their
\* body is deferred
DumpRepository_DecodeTags ==
    /\ pool.pc = "read" /\ pool.fn = "DumpRepository" /\ Len(pool.bodies) = 1
    /\ \E o \in ReadOutcomes(Reader(pool.fn, 1)), tags \in BOOLEAN :
         LET read == IF o.eof THEN ReadToEOF(pool.bodies[1]) ELSE pool.bodies[1]
         IN  pool' = IF o.err
                     THEN [pool EXCEPT !.pc = "return", !.bodies[1] = read,
                                       !.err = "failed to decode tags"]
                     ELSE IF ~tags
                     THEN [pool EXCEPT !.pc = "return", !.bodies[1] = read,
                                       !.err = "no tags found"]
                     ELSE [pool EXCEPT !.pc = "request", !.bodies[1] = read]
    /\ UNCHANGED <<registryVars, env, now, limiter, cl, sent, admitted, tunnel, endpoint, hs>>

\* registry.go:216-232, 263-307: getAndStoreResponse and getAndStoreBlob read
\* the body to its end and close it when they return; a manifest that cannot
\* be read ends DumpRepository, a blob that cannot does not
DumpRepository_ReadBody ==
    /\ pool.pc = "read" /\ pool.fn = "DumpRepository" /\ Len(pool.bodies) > 1
    /\ LET n == Len(pool.bodies)
       IN  \E o \in ReadOutcomes(Reader(pool.fn, n)) :
             LET read == IF o.eof THEN ReadToEOF(pool.bodies[n]) ELSE pool.bodies[n]
                 bodies == [pool.bodies EXCEPT ![n] = CloseBody(read)]
             IN  pool' = IF o.err /\ n = 2
                         THEN [pool EXCEPT !.pc = "return", !.bodies = bodies,
                                           !.err = "failed to fetch manifest"]
                         ELSE IF n < MaxRequests
                         THEN [pool EXCEPT !.pc = "request", !.bodies = bodies]
                         ELSE [pool EXCEPT !.pc = "return", !.bodies = bodies]
    /\ UNCHANGED <<registryVars, env, now, limiter, cl, sent, admitted, tunnel, endpoint, hs>>

\* the function returns and its deferred Close calls run (registry.go:135)
Pool_Return ==
    /\ pool.pc = "return"
    /\ pool' = [pool EXCEPT !.pc = "done", !.bodies = RunDeferred(@, pool.deferred),
                            !.deferred = <<>>]
    /\ UNCHANGED <<registryVars, env, now, limiter, cl, sent, admitted, tunnel, endpoint, hs>>

(***************************************************************************)
(* SpecPool: ListRepositories or DumpRepository, alone, behind a transport *)
(* of one connection per host, with responses of every kind of length and  *)
(* reads that may or may not come to the end of the body.                  *)
(***************************************************************************)
InitPool ==
    /\ env = [faults |-> FALSE, catalogFaults |-> FALSE, catalog |-> <<>>, caller |-> "main",
              rate |-> 1, auth |-> NoAuth]
    /\ fs = << >>
    /\ storeMutex = 0
    /\ wk = <<>>
    /\ main = Main("idle")
    /\ semaphore = 0
    /\ wg = 0
    /\ now = 0
    /\ limiter = [tokens |-> Burst, last |-> 0]
    /\ cl = <<>>
    /\ sent = <<0>>
    /\ admitted = <<0>>
    /\ tunnel = NoTunnel
    /\ endpoint = NoEndpoint
    /\ hs = NoHandshake
    /\ \E fn \in {"ListRepositories", "DumpRepository"} :
         pool = [pc |-> "request", fn |-> fn, bodies |-> <<>>, deferred |-> <<>>, err |-> "",
                 waited |-> FALSE]

NextPool ==
    \/ Pool_MakeRequest
    \/ Pool_Timeout
    \/ ListRepositories_Decode
    \/ DumpRepository_DecodeTags
    \/ DumpRepository_ReadBody
    \/ Pool_Return

SpecPool == InitPool /\ [][NextPool]_vars

(***************************************************************************)
(* SpecTunnel: main with -proxy socks5://..., from the first connectSOCKS5 *)
(* to the exit, with the transport dialling for its host keys meanwhile;   *)
(* at most MaxSockets sockets are established.                             *)
(***************************************************************************)
InitTunnel ==
    /\ env = [faults |-> FALSE, catalogFaults |-> FALSE, catalog |-> <<>>, caller |-> "main",
              rate |-> 1, auth |-> NoAuth]
    /\ fs = << >>
    /\ storeMutex = 0
    /\ wk = <<>>
    /\ main = Main("idle")
    /\ semaphore = 0
    /\ wg = 0
    /\ now = 0
    /\ limiter = [tokens |-> Burst, last |-> 0]
    /\ cl = <<>>
    /\ sent = <<0>>
    /\ admitted = <<0>>
    /\ \E f \in SUBSET ActionFlags :
         tunnel = [NoTunnel EXCEPT !.dl = [k \in HostKeys |-> Dial], !.prog = "connect", !.flags = f]
    /\ endpoint = NoEndpoint
    /\ hs = NoHandshake
    /\ pool = NoPool

NextTunnel ==
    \/ Main_ConnectSOCKS5
    \/ DialContext
    \/ Main_Validate
    \/ Main_Version
    \/ Main_Action
    \/ Main_MkdirAll
    \/ Main_Run
    \/ Main_Close

SpecTunnel == InitTunnel /\ [][NextTunnel]_vars

(***************************************************************************)
(* SpecDump: DumpRepository goroutines on their own (main.go -dump, or the  *)
(* goroutines of a dump-all once started), against a registry and a        *)
(* network that may answer anything.                                       *)
(***************************************************************************)
DumpRepos == {Alpine}

\* the specifications of the registry functions take each MakeRequest call as
\* one step: no caller is modelled, the clock stands still
NoClient ==
    /\ now = 0
    /\ limiter = [tokens |-> Burst, last |-> 0]
    /\ cl = <<>>
    /\ sent = <<0>>
    /\ admitted = <<0>>
    /\ tunnel = NoTunnel
    /\ endpoint = NoEndpoint
    /\ hs = NoHandshake
    /\ pool = NoPool

InitDump ==
    /\ env = [faults |-> TRUE, catalogFaults |-> FALSE, catalog |-> <<>>, caller |-> "dump",
              rate |-> 1, auth |-> NoAuth]
    /\ fs = << >>
    /\ storeMutex = 0
    /\ wk \in [1..2 -> {Goroutine(r) : r \in DumpRepos}]
    /\ main = Main("idle")
    /\ semaphore = 0
    /\ wg = 0
    /\ NoClient

NextDump == DumpRepository

SpecDump == InitDump /\ [][NextDump]_vars

(***************************************************************************)
(* SpecPaths: two DumpRepository goroutines, without faults, for           *)
(* repository names and digests as a registry may choose them.             *)
(***************************************************************************)
PathRepos == {Alpine, Nested, Loot, Mirror}

InitPaths ==
    /\ env = [faults |-> FALSE, catalogFaults |-> FALSE, catalog |-> <<>>, caller |-> "dump",
              rate |-> 1, auth |-> NoAuth]
    /\ fs = << >>
    /\ storeMutex = 0
    /\ wk \in [1..2 -> {Goroutine(r) : r \in PathRepos}]
    /\ main = Main("idle")
    /\ semaphore = 0
    /\ wg = 0
    /\ NoClient

NextPaths == DumpRepository

SpecPaths == InitPaths /\ [][NextPaths]_vars

(***************************************************************************)
(* SpecList: ListRepositories alone (main.go -list) over every catalog     *)
(* chain of at most MaxPages pages, each holding one of PageContents.      *)
(***************************************************************************)
MaxPages == 3
PageContents == {<<>>, <<Alpine>>, <<Empty, Alpine>>}

\* a chain: page k points to page k + 1, the last page has no Link header
Chains ==
    UNION {
      {[k \in 1..n |-> [repos |-> rs[k], link |-> ls[k], next |-> IF k < n THEN k + 1 ELSE 0]] :
          rs \in [1..n -> PageContents], ls \in [1..n -> {"relative", "absolute"}]}
      : n \in 1..MaxPages}

InitList ==
    /\ env \in [faults : {FALSE}, catalogFaults : BOOLEAN, catalog : Chains, caller : {"list"},
                rate : {1}, auth : {NoAuth}]
    /\ fs = << >>
    /\ storeMutex = 0
    /\ wk = <<>>
    /\ main = Main("call list")
    /\ semaphore = 0
    /\ wg = 0
    /\ NoClient

NextList == ListRepositories

SpecList == InitList /\ [][NextList]_vars

(***************************************************************************)
(* Spec: DumpAllRepositories (main.go -dump-all) against a registry whose  *)
(* repositories answer without faults: the first is complete, the second  *)
(* has a manifest that does not parse, the others have no tags.            *)
(***************************************************************************)
MaxRepos == 6

RepoAt(k) == IF k = 1 THEN Alpine ELSE IF k = 2 THEN Broken ELSE <<"empty", ToString(k)>>

\* one page holding the first n repositories
OnePage(n) == <<[repos |-> [k \in 1..n |-> RepoAt(k)], link |-> "relative", next |-> 0]>>

Init ==
    /\ env \in [faults : {FALSE}, catalogFaults : BOOLEAN,
                catalog : {OnePage(n) : n \in 0..MaxRepos}, caller : {"dump-all"}, rate : {1},
                auth : {NoAuth}]
    /\ fs = << >>
    /\ storeMutex = 0
    /\ wk = <<>>
    /\ main = Main("call list")
    /\ semaphore = 0
    /\ wg = 0
    /\ NoClient

Next ==
    \/ ListRepositories
    \/ DumpAllRepositories
    \/ DumpRepository

Spec == Init /\ [][Next]_vars

(***************************************************************************)
(* SpecCatalog: DumpAllRepositories over catalogs of two pages, where any  *)
(* catalog request may fail or come with a body that does not decode.      *)
(***************************************************************************)
TwoPages == {c \in Chains : Len(c) = 2 /\ c[1].link = "relative"}

InitCatalog ==
    /\ env \in [faults : {FALSE}, catalogFaults : {TRUE}, catalog : TwoPages,
                caller : {"dump-all"}, rate : {1}, auth : {NoAuth}]
    /\ fs = << >>
    /\ storeMutex = 0
    /\ wk = <<>>
    /\ main = Main("call list")
    /\ semaphore = 0
    /\ wg = 0
    /\ NoClient

NextCatalog ==
    \/ ListRepositories
    \/ DumpAllRepositories
    \/ DumpRepository

SpecCatalog == InitCatalog /\ [][NextCatalog]_vars

(***************************************************************************)
(* SpecClient: NumCallers goroutines share one Client and call MakeRequest *)
(* again and again, for MaxTime ticks, at a rate of 1 or 2 requests per    *)
(* second.                                                                 *)
(***************************************************************************)
NumCallers == 2
MaxTime == 3

InitClient ==
    /\ env \in [faults : {FALSE}, catalogFaults : {FALSE}, catalog : {<<>>}, caller : {"client"},
                rate : {1, 2}, auth : {NoAuth}]
    /\ fs = << >>
    /\ storeMutex = 0
    /\ wk = <<>>
    /\ main = Main("idle")
    /\ semaphore = 0
    /\ wg = 0
    /\ now = 0
    /\ limiter = [tokens |-> Burst, last |-> 0]
    /\ cl = [c \in 1..NumCallers |-> Caller]
    /\ sent = [t \in 1..(MaxTime + 1) |-> 0]
    /\ admitted = [t \in 1..(MaxTime + 1) |-> 0]
    /\ tunnel = NoTunnel
    /\ endpoint = NoEndpoint
    /\ hs = NoHandshake
    /\ pool = NoPool

NextClient ==
    \/ MakeRequest
    \/ Tick

SpecClient == InitClient /\ [][NextClient]_vars

(***************************************************************************)
(* SpecCall: one goroutine calls MakeRequest again and again, with every   *)
(* AuthConfig of AuthConfigs, against a network that may answer anything,  *)
(* for as long as one call with all its retries takes.                     *)
(***************************************************************************)
CustomHeaders ==
    {NoHeaders,
     [given |-> TRUE, valid |-> FALSE, pairs |-> <<>>],
     [given |-> TRUE, valid |-> TRUE, pairs |-> <<>>],
     [given |-> TRUE, valid |-> TRUE, pairs |-> << <<"X-Custom", <<"Value">>>> >>],
     [given |-> TRUE, valid |-> TRUE, pairs |-> << <<"authorization", <<"Custom ", "c">>>> >>],
     [given |-> TRUE, valid |-> TRUE,
      pairs |-> << <<"X-Custom", <<"Value">>>>, <<"Authorization", <<"Custom ", "c">>>> >>]}

AuthConfigs ==
    {AuthConfig(u, p, b, h) : u \in {"", "user"}, p \in {"", "pass"}, b \in {"", "token"},
                              h \in CustomHeaders}

\* the ticks one call can span at one request per second: its two sleeps
CallTicks == BackoffSeconds(1) + BackoffSeconds(2)

InitCall ==
    /\ env \in [faults : {TRUE}, catalogFaults : {FALSE}, catalog : {<<>>}, caller : {"client"},
                rate : {1}, auth : AuthConfigs]
    /\ fs = << >>
    /\ storeMutex = 0
    /\ wk = <<>>
    /\ main = Main("idle")
    /\ semaphore = 0
    /\ wg = 0
    /\ now = 0
    /\ limiter = [tokens |-> Burst, last |-> 0]
    /\ cl = <<Caller>>
    /\ sent = [t \in 1..(CallTicks + 1) |-> 0]
    /\ admitted = [t \in 1..(CallTicks + 1) |-> 0]
    /\ tunnel = NoTunnel
    /\ endpoint = NoEndpoint
    /\ hs = NoHandshake
    /\ pool = NoPool

NextCall ==
    \/ MakeRequest
    \/ Tick

SpecCall == InitCall /\ [][NextCall]_vars

(***************************************************************************)
(* SpecLinks: ListRepositories alone over catalogs of one or two pages     *)
(* whose Link headers may point to any page, also back to one already      *)
(* fetched.                                                                *)
(***************************************************************************)
Catalogs ==
    UNION {
      {[k \in 1..n |-> [repos |-> rs[k], link |-> ls[k], next |-> nx[k]]] :
          rs \in [1..n -> PageContents], ls \in [1..n -> {"relative", "absolute"}],
          nx \in [1..n -> 0..n]}
      : n \in 1..2}

InitLinks ==
    /\ env \in [faults : {FALSE}, catalogFaults : {FALSE}, catalog : Catalogs, caller : {"list"},
                rate : {1}, auth : {NoAuth}]
    /\ fs = << >>
    /\ storeMutex = 0
    /\ wk = <<>>
    /\ main = Main("call list")
    /\ semaphore = 0
    /\ wg = 0
    /\ NoClient

NextLinks == ListRepositories

SpecLinks == InitLinks /\ [][NextLinks]_vars

(***************************************************************************)
(* Properties of the blob fetcher (SpecDump).                              *)
(***************************************************************************)
\* a cleaned path whose last segment is a final blob name
IsBlobName(cp) == Len(cp) > 0 /\ Last(cp) # <<>> /\ Last(cp)[1] \in {"config_", "layer_"}
IsManifestName(cp) == Len(cp) > 0 /\ Last(cp) = <<"manifest.json">>
IsTempName(cp) == Len(cp) > 0 /\ Last(cp) # <<>> /\ Last(cp)[1] = "blob_"

SameAt(p) == (p \in DOMAIN fs <=> p \in DOMAIN fs') /\ (p \in DOMAIN fs => fs'[p] = fs[p])

FinalOf(w) == BlobFile(wk[w].repo, wk[w].manifest, wk[w].i)
TempOf(w) == TempFile(w, FinalOf(w), wk[w].i)

\* the goroutine is at the end of a stream that came through whole
StreamedWhole(w) == wk[w].pc = "copy" /\ wk[w].stream.data = <<>> /\ ~wk[w].stream.fail
HashedDigest(w) == <<"sha256", ":", Sha256Hex(wk[w].hash)>>

C1_Verified ==
    \A p \in DOMAIN fs :
        IsFile(fs, p) /\ IsBlobName(p) =>
            <<"sha256", ":", Sha256Hex(fs[p].data)>> = fs[p].digest

C1_OnlyRename ==
    \A p \in DOMAIN fs' :
        IsBlobName(p) /\ ~SameAt(p) =>
            \E w \in DOMAIN wk :
                /\ StreamedWhole(w)
                /\ HashedDigest(w) = wk[w].expected
                /\ p = FinalOf(w)
                /\ wk'[w].pc = "cleanup" /\ wk'[w].berr = "ok"
                /\ IsFile(fs, TempOf(w)) /\ TempOf(w) \notin DOMAIN fs'
                /\ fs'[p].data = fs[TempOf(w)].data
                /\ fs'[p].digest = wk[w].expected

\* C1: every file under a final blob name (config_* or layer_*) has content
\* whose SHA-256, written "sha256:"+hex, is the digest the blob was requested
\* with, and a file appears or changes under a final blob name only by the
\* rename that follows a successful digest comparison.
C1_BlobIntegrity == [](C1_Verified) /\ [][C1_OnlyRename]_vars

\* two goroutines have published the same blob, one after the other, and one of
\* them has also seen a blob fail its check
C1_Witness ==
    /\ \E p \in DOMAIN fs : IsFile(fs, p) /\ IsBlobName(p) /\ fs[p].data = <<"00", "01">>
    /\ \E w \in DOMAIN wk : wk[w].pc = "cleanup" /\ wk[w].berr = "ok"
    /\ \E w \in DOMAIN wk : wk[w].pc = "cleanup" /\ wk[w].berr = "integrity"

C2_Mismatch(w) == StreamedWhole(w) /\ HashedDigest(w) # wk[w].expected

\* C2: when the digest computed over the streamed bytes differs from the
\* expected digest, the call ends with an integrity error, its final path is
\* left as it was (neither created nor overwritten), and the deferred remove
\* leaves no temporary file of the call behind.
C2_MismatchIsHardFailure ==
    [][\A w \in DOMAIN wk :
         /\ (C2_Mismatch(w) /\ wk'[w] # wk[w]) =>
                /\ wk'[w].pc = "cleanup" /\ wk'[w].berr = "integrity"
                /\ SameAt(FinalOf(w))
         /\ (wk[w].pc = "cleanup" /\ wk[w].berr = "integrity" /\ wk'[w] # wk[w]) =>
                /\ SameAt(FinalOf(w))
                /\ TempOf(w) \notin DOMAIN fs'
                /\ wk'[w].pc = "blob"]_vars

\* a call has ended with an integrity error while the other goroutine had
\* already published that very file: it is still there
C2_Witness ==
    \E w \in DOMAIN wk :
        /\ wk[w].pc = "cleanup" /\ wk[w].berr = "integrity"
        /\ IsFile(fs, FinalOf(w))
        /\ IsFile(fs, TempOf(w))

IsManifestURL(u) == \E k \in 1..Len(u) : u[k] = "/manifests/"
ManifestRequests(w) == {k \in 1..Len(wk[w].reqs) : IsManifestURL(wk[w].reqs[k])}

\* C10: for a non-empty tag list DumpRepository requests the manifest of the
\* first tag of the returned sequence, once, and of no other tag.
C10_FirstTagOnly ==
    \A w \in DOMAIN wk :
        /\ Cardinality(ManifestRequests(w)) <= 1
        /\ \A k \in ManifestRequests(w) :
             /\ Len(wk[w].tags) > 0
             /\ wk[w].reqs[k] = BaseURL \o <<":", Port, "/v2/">> \o wk[w].repo
                                        \o <<"/manifests/", wk[w].tags[1]>>
        /\ (Len(wk[w].tags) > 0 /\ wk[w].pc # "manifest") => Cardinality(ManifestRequests(w)) = 1

\* the list came back as v1, latest and the manifest of v1 was requested
C10_Witness ==
    \E w \in DOMAIN wk :
        /\ wk[w].tags = <<"v1", "latest">>
        /\ wk[w].pc = "returned" /\ wk[w].err = "nil"
        /\ Cardinality(ManifestRequests(w)) = 1

(***************************************************************************)
(* Properties of DumpAllRepositories (Spec, SpecFair).                     *)
(***************************************************************************)
\* the goroutines whose DumpRepository pipeline has started and whose slot is
\* not given back yet
Running == {w \in DOMAIN wk : wk[w].pc # "exited"}

\* C5: at most 5 DumpRepository pipelines execute at any moment; a further one
\* starts only when fewer than 5 hold a slot.
C5_AtMostFive ==
    [](Cardinality(Running) <= 5)
    /\ [][Len(wk') > Len(wk) => Cardinality(Running) < 5]_vars

\* five pipelines hold their slots and a sixth repository is waiting
C5_Witness == Cardinality(Running) = 5 /\ main.pc = "spawn" /\ main.idx = 6 /\ Len(main.repos) >= 6

C6_OnePerEntry ==
    /\ Len(wk) <= Len(main.repos)
    /\ \A k \in DOMAIN wk : wk[k].repo = main.repos[k]
    /\ main.pc = "spawn" => Len(wk) = main.idx - 1
    /\ (main.pc = "returned" /\ main.listErr = "") =>
          /\ Len(wk) = Len(main.repos)
          /\ \A k \in DOMAIN wk : wk[k].pc = "exited"

\* how far a goroutine is: every step of it raises this
GoroutineProgress(g) ==
    CASE g.pc = "start"    -> 0
      [] g.pc = "tags"     -> 1
      [] g.pc = "manifest" -> 2
      [] g.pc = "store"    -> 3
      [] g.pc = "write"    -> 4
      [] g.pc = "blob"     -> 10 * (g.i + 1)
      [] g.pc = "copy"     -> 10 * (g.i + 1) + 1 + Len(g.hash)
      [] g.pc = "cleanup"  -> 10 * (g.i + 1) + 9
      [] g.pc = "returned" -> 10 * (Len(g.manifest.layers) + 3)
      [] g.pc = "exited"   -> 10 * (Len(g.manifest.layers) + 3) + 1

RECURSIVE SumProgress(_, _)
SumProgress(gs, k) == IF k > Len(gs) THEN 0 ELSE GoroutineProgress(gs[k]) + SumProgress(gs, k + 1)

MainProgress ==
    CASE main.pc = "call list" -> 0
      [] main.pc = "list"      -> 1 + Len(main.pages)
      [] main.pc = "spawn"     -> 2 + Len(main.pages) + main.idx
      [] main.pc = "returned"  -> 4 + Len(main.pages) + main.idx

\* every step moves the calling goroutine or one pipeline forward
Progress == MainProgress + SumProgress(wk, 1)

\* the guard of the steps of goroutine w: it waits only for the mutex of
\* utils.StoreResponse
GoroutineCanStep(w) ==
    CASE wk[w].pc \in {"start", "tags", "manifest", "blob", "copy", "cleanup"} -> TRUE
      [] wk[w].pc = "store"    -> storeMutex = 0
      [] wk[w].pc = "write"    -> storeMutex = w
      [] wk[w].pc = "returned" -> env.caller = "dump-all"
      [] OTHER                 -> FALSE

\* the guard of the steps of the calling goroutine: it waits only for a slot
\* of the semaphore and in wg.Wait()
MainCanStep ==
    CASE main.pc \in {"call list", "list"} -> TRUE
      [] main.pc = "spawn" ->
            \/ main.idx <= Len(main.repos) /\ SemaphoreHasRoom(semaphore)
            \/ main.idx > Len(main.repos) /\ WaitReturns(wg)
      [] OTHER -> FALSE

\* some step of Next is possible (the states where this holds are those of
\* ENABLED Next)
CanStep == MainCanStep \/ \E w \in DOMAIN wk : GoroutineCanStep(w)

\* C6: DumpAllRepositories returns only after every goroutine it started has
\* finished, and it starts exactly one pipeline per entry of the list, in
\* order; until it has returned some step is possible, and every step raises
\* a bounded measure, so (every goroutine being scheduled) it returns.
C6_WaitsForAll ==
    /\ [](C6_OnePerEntry /\ (main.pc = "returned" \/ CanStep))
    /\ [][Progress' > Progress]_vars

\* returned after six pipelines, all finished
C6_Witness ==
    /\ main.pc = "returned" /\ main.listErr = ""
    /\ Len(wk) = 6 /\ \A k \in DOMAIN wk : wk[k].pc = "exited"

\* what a repository's pipeline ends with when it is dumped alone
OutcomeAlone(repo) ==
    IF repo = Alpine THEN "nil" ELSE IF repo = Broken THEN "parse manifest" ELSE "no tags found"

RECURSIVE AllNames(_, _)
\* the names of pages k.. of the chain, in page order and in-page order
AllNames(chain, k) == IF k > Len(chain) THEN <<>> ELSE chain[k].repos \o AllNames(chain, k + 1)

ListFailed == main.listErr \in {"fetch catalog", "decode catalog"}

\* C8: every page of the chain is requested once, in chain order, up to the
\* first page without a Link header, and the names returned are the pages'
\* names concatenated in page order and in-page order.
C8_Pagination ==
    /\ Len(main.pages) <= Len(env.catalog)
    /\ \A k \in DOMAIN main.pages : main.pages[k] = PageURL(k)
    /\ (main.pc = "returned" /\ ~ListFailed) => Len(main.pages) = Len(env.catalog)
    /\ (main.pc = "returned" /\ main.listErr = "") => main.repos = AllNames(env.catalog, 1)

\* a chain of three pages, linked once by a relative and once by an absolute
\* URL, has been listed
C8_Witness ==
    /\ main.pc = "returned" /\ main.listErr = ""
    /\ Len(env.catalog) = 3 /\ Len(main.repos) = 4
    /\ env.catalog[1].link = "relative" /\ env.catalog[2].link = "absolute"

\* C9: when every page was fetched and decoded but the aggregated list is
\* empty, ListRepositories returns the error "no repositories found" and no
\* list; it never returns an empty list with a nil error.
C9_EmptyIsError ==
    main.pc = "returned" =>
        /\ ~(main.listErr = "" /\ main.repos = <<>>)
        /\ (~ListFailed /\ AllNames(env.catalog, 1) = <<>>) =>
              main.listErr = "no repositories found" /\ main.repos = <<>>

\* three empty pages were fetched and the call ended with the error
C9_Witness ==
    /\ main.pc = "returned" /\ main.listErr = "no repositories found"
    /\ Len(main.pages) = 3

(***************************************************************************)
(* Properties of the rate limit (SpecClient).                              *)
(***************************************************************************)
RECURSIVE WindowCount(_, _, _)
\* the events of history h in the ticks a..b
WindowCount(h, a, b) == IF a > b THEN 0 ELSE h[a + 1] + WindowCount(h, a + 1, b)

\* at most N*T + 1 events in every window of T seconds, i.e. of N*T ticks
RateBound(h) ==
    \A a \in 0..now : \A b \in a..now : WindowCount(h, a, b) <= (b - a) + Burst

\* C4 as stated: the HTTP requests sent through the shared Client in any
\* window of T seconds number at most N*T plus the burst token, each of them
\* having consumed one token of the limiter.
C4_RequestsSentBounded ==
    /\ RateBound(sent)
    /\ WindowCount(sent, 0, now) = WindowCount(admitted, 0, now)

\* what the limiter does bound: the MakeRequest calls admitted by the shared limiter in any
\* window of T seconds number at most N*T plus the burst token, whatever the
\* number of callers; each call consumes one token before its first attempt
\* and none for its retries, so the HTTP requests sent are at least as many
\* as the tokens consumed and at most MaxRetries times as many.
AdmissionsBounded ==
    /\ RateBound(admitted)
    /\ WindowCount(admitted, 0, now) <= WindowCount(sent, 0, now)
    /\ WindowCount(sent, 0, now) <= MaxRetries * WindowCount(admitted, 0, now)
    /\ \A c \in DOMAIN cl : cl[c].pc = "backoff" => cl[c].attempt \in 1..(MaxRetries - 1)

\* the limiter has admitted a call at every tick, and with the retries more
\* HTTP requests than that went out
RetriesOutrunLimiter ==
    /\ now >= 2
    /\ WindowCount(admitted, 0, now) = now + Burst
    /\ WindowCount(sent, 0, now) > now + Burst
    /\ \E c \in DOMAIN cl : cl[c].attempt = MaxRetries

(***************************************************************************)
(* Properties of DumpRepository's early exits (Spec, SpecDump).            *)
(***************************************************************************)
\* the registry answers the tags request of repo with an empty list
HasNoTags(repo) == \A r \in TagsOutcomes(repo) : r.err = "" /\ Len(r.tags) = 0

\* the directory of a repository's artifacts
RepoDir(repo) == Dir(ManifestFile(repo))

\* C11: for a repository whose tag list is empty, DumpRepository returns "no
\* tags found" right after the tags request: it issues no manifest and no blob
\* request and nothing exists at or under the repository's directory.
C11_NoTagsNoArtifacts ==
    \A w \in DOMAIN wk :
       HasNoTags(wk[w].repo) =>
          /\ wk[w].pc \in {"start", "tags", "returned", "exited"}
          /\ wk[w].pc \in {"returned", "exited"} =>
                wk[w].err = "no tags found" /\ wk[w].reqs = <<TagsURL(wk[w].repo)>>
          /\ \A p \in DOMAIN fs : ~IsPrefix(RepoDir(wk[w].repo), p)

\* a repository without tags ended with the error while "alpine", in the same
\* batch, was dumped
C11_Witness ==
    \E w, v \in DOMAIN wk :
       /\ HasNoTags(wk[w].repo) /\ wk[w].pc = "exited" /\ wk[w].err = "no tags found"
       /\ wk[v].repo = Alpine /\ wk[v].pc = "exited" /\ wk[v].err = "nil"

FilesOfKind(repo, kind) ==
    {p \in DOMAIN fs : /\ IsPrefix(RepoDir(repo), p) /\ IsFile(fs, p)
                       /\ Last(p) # <<>> /\ Last(p)[1] = kind}

\* C13: "alpine" has one tag whose manifest names one config and two layers,
\* all served intact.  Once its DumpRepository has returned, the error is nil
\* and its directory holds manifest.json with the bytes served, one config_*
\* file, two layer_* files, each complete and of the digest in its name's
\* request, and no temporary file; nothing else is in the directory.
C13_AlpineScenario ==
    \A w \in DOMAIN wk :
       (wk[w].repo = Alpine /\ wk[w].pc \in {"returned", "exited"}) =>
          /\ wk[w].err = "nil"
          /\ wk[w].manifest = ManifestAlpine
          /\ IsFile(fs, ManifestFile(Alpine))
          /\ fs[ManifestFile(Alpine)].data = ManifestBody("alpine.json")
          /\ fs[ManifestFile(Alpine)].complete
          /\ Cardinality(FilesOfKind(Alpine, "config_")) = 1
          /\ Cardinality(FilesOfKind(Alpine, "layer_")) = 2
          /\ FilesOfKind(Alpine, "blob_") = {}
          /\ \A p \in FilesOfKind(Alpine, "config_") \cup FilesOfKind(Alpine, "layer_") :
                /\ fs[p].complete
                /\ CalculatedDigest(fs[p].data) = fs[p].digest
                /\ fs[p].digest \in {D0, D01}
          /\ Cardinality({p \in DOMAIN fs : IsPrefix(RepoDir(Alpine), p) /\ IsFile(fs, p)}) = 4
          /\ Len(wk[w].reqs) = 5

\* "alpine" has been dumped: its three blobs are in place
C13_Witness ==
    /\ \E w \in DOMAIN wk : wk[w].repo = Alpine /\ wk[w].pc = "returned" /\ wk[w].err = "nil"
    /\ IsFile(fs, BlobFile(Alpine, ManifestAlpine, 0))
    /\ IsFile(fs, BlobFile(Alpine, ManifestAlpine, 1))
    /\ IsFile(fs, BlobFile(Alpine, ManifestAlpine, 2))

(***************************************************************************)
(* Properties of one MakeRequest call (SpecCall).                          *)
(***************************************************************************)
\* the values the custom headers give for the header named k
CustomValues(auth, k) ==
    {auth.headers.pairs[j][2] : j \in {i \in 1..Len(auth.headers.pairs) :
                                         CanonicalKey(auth.headers.pairs[i][1]) = k}}

\* a request of this call has been sent
HasSent(c) == cl[c].hdr # EmptyHeader

\* C14 as stated: the Authorization header is Basic when username and password
\* are set, otherwise Bearer when a bearer token is set, otherwise absent;
\* custom headers come last and override what was set before them.
C14_BasicElseBearer ==
    \A c \in DOMAIN cl :
       HasSent(c) =>
          LET a == env.auth
              h == cl[c].hdr
          IN  /\ \A k \in DOMAIN h : CustomValues(a, k) # {} => h[k] \in CustomValues(a, k)
              /\ CustomValues(a, "Authorization") = {} =>
                    IF a.username # "" /\ a.password # ""
                    THEN "Authorization" \in DOMAIN h
                         /\ h["Authorization"] = BasicValue(a.username, a.password)
                    ELSE IF a.bearer # ""
                    THEN "Authorization" \in DOMAIN h
                         /\ h["Authorization"] = BearerValue(a.bearer)
                    ELSE "Authorization" \notin DOMAIN h

\* what the requests carry: the bearer token, set after Basic, replaces it
AuthorizationAsSent ==
    \A c \in DOMAIN cl :
       HasSent(c) =>
          LET a == env.auth
              h == cl[c].hdr
          IN  /\ \A k \in DOMAIN h : CustomValues(a, k) # {} => h[k] \in CustomValues(a, k)
              /\ CustomValues(a, "Authorization") = {} =>
                    IF a.bearer # ""
                    THEN "Authorization" \in DOMAIN h
                         /\ h["Authorization"] = BearerValue(a.bearer)
                    ELSE IF a.username # "" /\ a.password # ""
                    THEN "Authorization" \in DOMAIN h
                         /\ h["Authorization"] = BasicValue(a.username, a.password)
                    ELSE "Authorization" \notin DOMAIN h

\* the call of c has returned
HasReturned(c) == cl[c].pc = "idle" /\ cl[c].result # <<>>

\* C15: MakeRequest returns the response only for status 200; a 401 yields an
\* error, which carries the Www-Authenticate value when the response has one;
\* every other status yields an error naming the status; and a response with
\* a status ends the call at once: only a transport error is followed by a
\* sleep and another attempt.
C15_OnlyOkIsReturned ==
    \A c \in DOMAIN cl :
       /\ cl[c].pc = "backoff" => IsError(cl[c].last)
       /\ (cl[c].pc # "idle" /\ cl[c].attempt >= 1) => IsError(cl[c].last)
       /\ HasReturned(c) =>
            LET o == cl[c].last
            IN  /\ cl[c].result = <<"response">> <=> (~IsError(o) /\ o.status = "200")
                /\ (o.status = "401" /\ o.challenge # "") =>
                      cl[c].result = <<"unauthorized: ", o.challenge>>
                /\ (o.status \notin {"", "200"} /\ ~(o.status = "401" /\ o.challenge # "")) =>
                      cl[c].result = <<"unexpected status: ", o.status>>

\* the second attempt of a call was answered 401 with a challenge
C15_Witness ==
    \E c \in DOMAIN cl :
       /\ HasReturned(c) /\ cl[c].attempt = 2
       /\ cl[c].last.status = "401" /\ cl[c].last.challenge = "Basic realm"
       /\ cl[c].result = <<"unauthorized: ", "Basic realm">>

\* the transport failures the retry policy names as transient
NamedTransient(o) ==
    \/ o.timeout
    \/ \E k \in 1..Len(o.err) :
          o.err[k] \in {"connection reset by peer", "broken pipe",
                        "use of closed network connection"}

C16_Bounded ==
    \A c \in DOMAIN cl :
       /\ cl[c].attempt <= 3
       /\ cl[c].attempt >= 1 => cl[c].slept = SubSeq(<<1, 2>>, 1, Len(cl[c].slept))
       /\ (cl[c].attempt >= 1 /\ cl[c].pc = "backoff") => Len(cl[c].slept) = cl[c].attempt
       /\ (cl[c].attempt >= 1 /\ cl[c].pc = "idle") => Len(cl[c].slept) = cl[c].attempt - 1
       /\ cl[c].pc = "backoff" =>
             IsError(cl[c].last) /\ NamedTransient(cl[c].last) /\ cl[c].attempt < 3
       /\ (HasReturned(c) /\ cl[c].attempt >= 1 /\ IsError(cl[c].last)) =>
             /\ cl[c].result = <<"request failed: ">> \o cl[c].last.err
             /\ NamedTransient(cl[c].last) => cl[c].attempt = 3

C16_Step ==
    \A c \in DOMAIN cl :
       /\ (cl[c].pc # "backoff" /\ cl'[c].pc = "backoff") =>
             cl'[c].act = now + Last(cl'[c].slept) * env.rate
       /\ (cl[c].pc = "backoff" /\ cl'[c] # cl[c]) =>
             now = cl[c].act /\ cl'[c].attempt = cl[c].attempt + 1

\* C16: a transport failure named transient (timeout, connection reset, broken
\* pipe, use of closed connection) is retried, with at most 3 attempts in a
\* call and sleeps of 1s and then 2s between them, the next attempt being made
\* when the sleep ends; any other transport failure ends the call with an
\* error at that attempt, and so does the third failure.
C16_RetryPolicy == [](C16_Bounded) /\ [][C16_Step]_vars

\* a call failed three times with transient errors, after sleeps of 1s and 2s
C16_Witness ==
    \E c \in DOMAIN cl :
       /\ HasReturned(c) /\ cl[c].attempt = 3 /\ cl[c].slept = <<1, 2>>
       /\ cl[c].last.err = <<"write: ", "broken pipe">>
       /\ now = 3

(***************************************************************************)
(* The SOCKS5 tunnel                                                       *)
(***************************************************************************)
\* the dial for host key k is in the function body, the lock taken
InDial(k) == tunnel.dl[k].pc \in {"locked", "redial"}

\* C17: a dial whose probe of the cached connection passes returns that very
\* connection and connects to nothing; a dial whose probe fails closes the
\* cached connection, empties the slot and connects once, with one attempt:
\* on success the new connection is in the slot and is the one returned, on
\* failure the dial returns an error and the slot stays empty
C17_Dial(k) ==
    LET d == tunnel.dl[k]
        e == tunnel'.dl[k]
    IN  /\ (d.pc = "locked" /\ e.pc = "connected") =>
              /\ tunnel.conn # 0
              /\ e.got = tunnel.conn
              /\ tunnel'.conn = tunnel.conn
              /\ ~tunnel'.socks[e.got].closed
              /\ Len(tunnel'.socks) = Len(tunnel.socks)
              /\ e.connects = 0
              /\ e.err = ""
        /\ (d.pc = "locked" /\ e.pc = "redial" /\ tunnel.conn # 0) =>
              /\ tunnel'.socks[tunnel.conn].closed
              /\ tunnel'.conn = 0
              /\ Len(tunnel'.socks) = Len(tunnel.socks)
        /\ (d.pc = "redial" /\ e.pc = "connected") =>
              /\ tunnel.conn = 0
              /\ Len(tunnel'.socks) = Len(tunnel.socks) + 1
              /\ tunnel'.conn = Len(tunnel'.socks)
              /\ e.got = tunnel'.conn
              /\ ~tunnel'.socks[e.got].closed
              /\ e.connects = DialRetries
              /\ e.err = ""
        /\ (d.pc = "redial" /\ e.pc = "idle") =>
              /\ tunnel.conn = 0
              /\ tunnel'.conn = 0
              /\ Len(tunnel'.socks) = Len(tunnel.socks)
              /\ e.connects = DialRetries
              /\ e.got = 0
              /\ e.err # ""

C17_ReuseOrOneRedial == [][\A k \in HostKeys : C17_Dial(k)]_vars

\* a dial has found the cached connection dead, dropped it and put a new one
\* in the slot, and another dial failed to connect and left the slot empty
C17_Witness ==
    \E k, j \in HostKeys :
       /\ tunnel.dl[k].pc = "connected"
       /\ tunnel.dl[k].probed # 0
       /\ tunnel.dl[k].connects = 1
       /\ tunnel.dl[k].got # tunnel.dl[k].probed
       /\ tunnel.dl[j].err # ""
       /\ tunnel.dl[j].probed # 0
       /\ tunnel.conn = 0

\* the dials that are between Lock and Unlock
InCriticalSection == {k \in HostKeys : InDial(k)}

\* at most one dial is in the critical section, and it is the holder of the lock
MutualExclusion ==
    /\ Cardinality(InCriticalSection) <= 1
    /\ \A k \in HostKeys : InDial(k) => tunnel.mu = k
    /\ tunnel.mu # "" => tunnel.mu \in InCriticalSection

\* C18: probe, reuse, discard and redial are one critical section under the
\* mutex of the slot: no two dials are in it together, the slot changes only
\* in a step of the dial that holds the lock (or of main, the lock free), a
\* connection in the slot is replaced only once it has been closed, and a new
\* connection is established only in place of one found dead, every earlier
\* one being closed by then
C18_Step ==
    /\ MutualExclusion
    /\ MutualExclusion'
    /\ tunnel'.conn # tunnel.conn =>
          \/ /\ tunnel.mu \in HostKeys
             /\ tunnel'.dl[tunnel.mu] # tunnel.dl[tunnel.mu]
             /\ \A j \in HostKeys \ {tunnel.mu} : tunnel'.dl[j] = tunnel.dl[j]
          \/ /\ tunnel.mu = ""
             /\ tunnel.prog \in {"connect", "closing"}
    /\ (tunnel.conn # 0 /\ tunnel'.conn # tunnel.conn) => tunnel'.socks[tunnel.conn].closed
    /\ (Len(tunnel'.socks) > Len(tunnel.socks) /\ tunnel.prog # "connect") =>
          /\ Len(tunnel'.socks) = Len(tunnel.socks) + 1
          /\ tunnel.conn = 0
          /\ \A n \in 1..Len(tunnel.socks) : tunnel.socks[n].closed

C18_CriticalSection == [][C18_Step]_vars

\* one dial has replaced the dead first connection by the second, and the
\* dial for the other host key, coming after it, has reused the second
C18_Witness ==
    \E k, j \in HostKeys :
       /\ k # j
       /\ tunnel.dl[k].pc = "connected"
       /\ tunnel.dl[k].probed = 1
       /\ tunnel.dl[k].connects = 1
       /\ tunnel.dl[k].got = 2
       /\ tunnel.dl[j].pc = "connected"
       /\ tunnel.dl[j].probed = 2
       /\ tunnel.dl[j].connects = 0
       /\ tunnel.dl[j].got = 2
       /\ Len(tunnel.socks) = 2

\* the transport connections that hold socket n
Holders(n) == tunnel.socks[n].holders

\* C19: the cached tunnel connection is never in use by two connections of
\* the transport at once: no socket has two holders
C19_OneHolder == \A n \in 1..Len(tunnel.socks) : Cardinality(Holders(n)) <= 1

\* the transport's connections for two host keys are the same open socket
SocketShared ==
    \E n \in 1..Len(tunnel.socks) : ~tunnel.socks[n].closed /\ Holders(n) = HostKeys

\* MaxConnsPerHost is kept all the same: per host key the transport holds at
\* most one connection, the sharing is across host keys
OnePerHostKey ==
    \A k \in HostKeys :
       Cardinality({n \in 1..Len(tunnel.socks) : k \in Holders(n)}) <= 1

\* a connection has been established and stored in the slot
Established == Len(tunnel.socks) > 0

\* C20: once a connection has been established, the program ends, whatever
\* the path, with the cached connection closed and the slot empty
C20_ClosedOnExit ==
    (tunnel.prog = "exited" /\ Established) =>
       /\ tunnel.conn = 0
       /\ \A n \in 1..Len(tunnel.socks) : tunnel.socks[n].closed

\* the paths that do close: version detection failure, list or dump failure,
\* normal completion
ClosingExits == {"version detection", "list or dump", "done"}

\* on those the slot is empty and its connection closed at the exit
ClosedOnClosingExits ==
    (tunnel.prog = "exited" /\ tunnel.exit \in ClosingExits) =>
       /\ tunnel.conn = 0
       /\ \A n \in 1..Len(tunnel.socks) : Holders(n) = {} => tunnel.socks[n].closed

\* the program has left through an exit that does not close, the connection
\* open in the slot
ExitedLeavingOpen ==
    /\ tunnel.prog = "exited"
    /\ tunnel.exit \in {"url validation", "no action", "output directory"}
    /\ tunnel.conn # 0
    /\ ~tunnel.socks[tunnel.conn].closed

(***************************************************************************)
(* DumpRepository: no rollback, the order of its requests, its blobs       *)
(***************************************************************************)
\* the step publishes the blob of goroutine w under p
Publishes(w, p) ==
    /\ wk[w].pc = "copy"
    /\ wk'[w].pc = "cleanup"
    /\ wk'[w].berr = "ok"
    /\ p = FinalOf(w)

\* C21: a repository dump has no rollback: a blob file that was verified and
\* published stays, with its content, through every later step of the run,
\* whatever fails later; the one step that touches it is a later successful
\* publication under the same name, which puts the same content there again
C21_Step ==
    \A p \in DOMAIN fs :
       (IsBlobName(p) /\ IsFile(fs, p)) =>
          /\ p \in DOMAIN fs'
          /\ IsFile(fs', p)
          /\ fs'[p].data = fs[p].data
          /\ fs'[p].complete
          /\ fs'[p] # fs[p] => \E w \in DOMAIN wk : Publishes(w, p)

C21_NoRollback == [][C21_Step]_vars

\* a run has published its config blob, then a layer of it failed the digest
\* check and the temporary file of that layer is gone; the other run never
\* got as far as a blob
C21_Witness ==
    \E w, v \in DOMAIN wk :
       /\ wk[v].pc = "returned" /\ wk[v].err = "fetch tags"
       /\ wk[w].pc = "blob" /\ wk[w].berr = "integrity"
       /\ wk[w].manifest.config.digest # <<>>
       /\ wk[w].i > 1
       /\ IsFile(fs, BlobFile(wk[w].repo, wk[w].manifest, 0))

(***************************************************************************)
(* main: what stops the run before the first registry call                 *)
(***************************************************************************)
\* the failures of the start: the proxy connection, the URL validation (the
\* endpoint does not answer), the version detection
StartupFailures == {"proxy", "url validation", "version detection"}

\* C22: a proxy dial or handshake failure at startup, or a registry endpoint
\* that cannot be reached, stops the run: from the failure on the program is
\* closing or has exited, and no ListRepositories, DumpAllRepositories or
\* DumpRepository call has been or will be made
C22_NoCallAfterStartupFailure ==
    tunnel.exit \in StartupFailures =>
       /\ tunnel.calls = <<>>
       /\ tunnel.prog \in {"closing", "exited"}

\* the run was asked to list and to dump, and the version detection failed:
\* the program has exited with no call made
C22_Witness ==
    /\ tunnel.flags = ActionFlags
    /\ tunnel.exit = "version detection"
    /\ tunnel.prog = "exited"
    /\ tunnel.tries = 3

(***************************************************************************)
(* validateAndNormalizeURL                                                 *)
(***************************************************************************)
\* the ports a URL names after its host
PortsNamed(url) ==
    LET u == UrlParse(url)
    IN  {k \in 1..Len(u.host) : u.host[k] = ":"}

\* validateAndNormalizeURL has returned an endpoint
Normalized == endpoint.pc \in {"done", "requested"}

\* C23: for a URL with a scheme and an explicit port, the port returned is
\* the one of the URL, and every request URL built as <base>:<port>/v2/...
\* names the host with that one port only
C23_OnePort ==
    (endpoint.pc = "requested" /\ endpoint.build = "part_001" /\ UrlPort(endpoint.u) # "") =>
       /\ endpoint.port = Atoi(UrlPort(endpoint.u))
       /\ \A k \in 1..Len(endpoint.urls) :
            /\ Cardinality(PortsNamed(endpoint.urls[k])) = 1
            /\ UrlPort(UrlParse(endpoint.urls[k])) = UrlPort(endpoint.u)

\* what does hold: the port returned is the one of the URL if it has one and
\* the value of -port otherwise
PortOfURLElseFlag ==
    (Normalized /\ endpoint.build = "part_001") =>
       endpoint.port = IF UrlPort(endpoint.u) # "" THEN Atoi(UrlPort(endpoint.u))
                       ELSE endpoint.flagPort

\* a URL with scheme and port, validated through the tunnel: the request URLs
\* name the port twice
PortNamedTwice ==
    /\ endpoint.pc = "requested"
    /\ UrlPort(endpoint.u) = "5001"
    /\ endpoint.urls[1] = <<"http", "://", "registry", ":", "5001", ":", "5001", "/v2/_catalog?n=100">>

\* without the tunnel a URL with scheme and port is never validated, whatever
\* the registry listens on
ExplicitPortUnreachable ==
    (~endpoint.socks /\ endpoint.pc \in {"done", "requested"}) => UrlPort(endpoint.u) = ""

C24_Endpoint ==
    /\ Normalized =>
          /\ Len(endpoint.base) >= 3
          /\ endpoint.base[1] \in {"http", "https"}
          /\ endpoint.base[2] = "://"
          /\ endpoint.port > 0
    /\ endpoint.urls # <<>> => endpoint.pc = "requested"

C24_Once ==
    /\ (Normalized /\ Normalized') =>
          /\ endpoint'.base = endpoint.base
          /\ endpoint'.port = endpoint.port
    /\ endpoint'.urls # endpoint.urls => endpoint.pc = "done"

\* C24: whenever validateAndNormalizeURL succeeds, the endpoint it returns
\* has the scheme "http" or "https", exactly, and a positive port; it is
\* normalized once, before any request of a listing or a dump is built, and
\* stays as it is
C24_SchemeAndPort == [](C24_Endpoint) /\ [][C24_Once]_vars

\* -url HTTPS://registry/ has been normalized to https://registry and the
\* value of -port, and the requests have been built from it
C24_Witness ==
    /\ endpoint.pc = "requested"
    /\ endpoint.raw = <<"HTTPS", "://", "registry", "/">>
    /\ endpoint.base = <<"https", "://", "registry">>
    /\ endpoint.port = 5000
    /\ endpoint.urls[1] = <<"https", "://", "registry", ":", "5000", "/v2/_catalog?n=100">>

RECURSIVE LayerRequests(_, _, _)
\* the blob URLs of the layers from k on that have a digest, in manifest order
LayerRequests(repo, layers, k) ==
    IF k > Len(layers) THEN <<>>
    ELSE (IF layers[k].digest # <<>> THEN <<BlobURL(repo, layers[k].digest)>> ELSE <<>>)
         \o LayerRequests(repo, layers, k + 1)

\* the blob requests a manifest calls for: the config, then the layers
BlobRequests(repo, m) ==
    (IF m.config.digest # <<>> THEN <<BlobURL(repo, m.config.digest)>> ELSE <<>>)
    \o LayerRequests(repo, m.layers, 1)

\* the requests of a run so far are the beginning of: tags list, manifest of
\* the first tag, config blob, layer blobs in manifest order
C25_Order(w) ==
    LET g == wk[w]
        n == Len(g.reqs)
    IN  /\ n >= 1 => g.reqs[1] = TagsURL(g.repo)
        /\ n >= 2 => g.reqs[2] = ManifestURL(g.repo, g.tags[1])
        /\ n >= 3 => IsPrefix(SubSeq(g.reqs, 3, n), BlobRequests(g.repo, g.manifest))
        /\ (g.pc = "returned" /\ g.err = "nil") =>
              g.reqs = <<TagsURL(g.repo), ManifestURL(g.repo, g.tags[1])>>
                       \o BlobRequests(g.repo, g.manifest)

\* a request is issued with nothing of the run in flight: no download is
\* under way and no temporary file of the run is left
C25_OneAtATime(w) ==
    wk'[w].reqs # wk[w].reqs =>
       /\ Len(wk'[w].reqs) = Len(wk[w].reqs) + 1
       /\ wk[w].pc \in {"tags", "manifest", "blob"}
       /\ wk[w].stream = NoStream
       /\ \A p \in DOMAIN fs : IsTempName(p) => Last(p)[2] # ToString(w)

\* C25: within one DumpRepository run the requests are issued one after
\* another, in the order tags list, manifest, config blob, layer blobs in
\* manifest order, each blob request only once the previous download has
\* finished, so that no two requests of the run are in flight together
C25_Sequential ==
    /\ [](\A w \in DOMAIN wk : C25_Order(w))
    /\ [][\A w \in DOMAIN wk : C25_OneAtATime(w)]_vars

\* a run has gone through the whole alpine manifest, five requests, one of its
\* blobs having failed
C25_Witness ==
    \E w \in DOMAIN wk :
       /\ wk[w].pc = "returned" /\ wk[w].err = "nil"
       /\ wk[w].manifest = ManifestAlpine
       /\ Len(wk[w].reqs) = 5
       /\ wk[w].berr # "ok"

\* the blobs of manifest m with an index up to i that have a digest
\* (0 is the config, k is layer k)
DigestsUpTo(m, i) ==
    {j \in 0..i : j <= Len(m.layers) /\ (IF j = 0 THEN m.config ELSE m.layers[j]).digest # <<>>}

\* C26: the failure of a blob, a digest mismatch or any other, is never
\* retried and never keeps the remaining blobs of the manifest from being
\* requested: whatever failed, when the run is at blob i each blob before it
\* that has a digest was requested exactly once, the index only grows, and
\* the run ends, with all of them requested, in the return of nil
C26_State(w) ==
    LET g == wk[w]
        blobs == Len(g.reqs) - 2
    IN  /\ g.pc = "blob" => blobs = Cardinality(DigestsUpTo(g.manifest, g.i - 1))
        /\ g.pc \in {"copy", "cleanup"} => blobs = Cardinality(DigestsUpTo(g.manifest, g.i))
        /\ (g.pc = "returned" /\ g.manifest # NoManifest) =>
              /\ g.err = "nil"
              /\ blobs = Cardinality(DigestsUpTo(g.manifest, Len(g.manifest.layers)))

C26_Step(w) ==
    /\ (wk[w].pc \in {"blob", "copy", "cleanup"} /\ wk'[w].pc \in {"blob", "copy", "cleanup"}) =>
          wk'[w].i >= wk[w].i
    /\ (wk[w].pc = "cleanup" /\ wk[w].berr # "ok" /\ wk'[w] # wk[w]) =>
          /\ wk'[w].pc = "blob"
          /\ wk'[w].i > wk[w].i
          /\ wk'[w].reqs = wk[w].reqs

C26_FailureSkipsOneBlob ==
    /\ [](\A w \in DOMAIN wk : C26_State(w))
    /\ [][\A w \in DOMAIN wk : C26_Step(w)]_vars

\* no run got the config blob of alpine, the digest check having failed, and
\* yet a run went on, published the first layer and requested all five
C26_Witness ==
    \E w \in DOMAIN wk :
       /\ wk[w].pc = "returned" /\ wk[w].err = "nil"
       /\ wk[w].manifest = ManifestAlpine
       /\ Len(wk[w].reqs) = 5
       /\ BlobFile(wk[w].repo, ManifestAlpine, 0) \notin DOMAIN fs
       /\ IsFile(fs, BlobFile(wk[w].repo, ManifestAlpine, 1))

\* the descriptor of blob j as the manifest has it
DescriptorAt(m, j) == IF j = 0 THEN m.config ELSE m.layers[j]

\* the run of goroutine w has parsed its manifest
Parsed(w) == wk[w].pc \in {"blob", "copy", "cleanup"} \/ (wk[w].pc = "returned" /\ wk[w].manifest # NoManifest)

\* a file named after an empty digest: config_<ext> or layer_<ext>
IsEmptyDigestName(cp) == IsBlobName(cp) /\ Len(Last(cp)) = 2

C27_State(w) ==
    LET g == wk[w]
    IN  /\ \A k \in 1..Len(g.reqs) : g.reqs[k] # BlobURL(g.repo, <<>>)
        /\ g.pc \in {"copy", "cleanup"} => DescriptorAt(g.manifest, g.i).digest # <<>>
        /\ (g.pc = "returned" /\ g.manifest # NoManifest) =>
              /\ g.err = "nil"
              /\ SubSeq(g.reqs, 3, Len(g.reqs)) = BlobRequests(g.repo, g.manifest)

\* the blobs a step passes over without a request have no digest
C27_Step(w) ==
    (Parsed(w)' /\ wk'[w].pc = "blob" /\ wk'[w] # wk[w]) =>
       \A j \in 0..Len(wk'[w].manifest.layers) :
          (j < wk'[w].i /\ (wk[w].pc = "write" \/ j > wk[w].i)) =>
             /\ DescriptorAt(wk'[w].manifest, j).digest = <<>>
             /\ wk'[w].berr = wk[w].berr

\* C27: a config without a digest causes no config request and no error; a
\* layer without a digest is passed over, alone: no request, no file, no
\* error; every layer that has a digest is still requested, in order
C27_EmptyDigestsSkipped ==
    /\ [](/\ \A w \in DOMAIN wk : C27_State(w)
          /\ \A p \in DOMAIN fs : ~IsEmptyDigestName(p))
    /\ [][\A w \in DOMAIN wk : C27_Step(w)]_vars

\* the sparse manifest (no config digest, a first layer without digest): the
\* run requested its second layer alone, published it and returned nil
C27_Witness ==
    \E w \in DOMAIN wk :
       /\ wk[w].pc = "returned" /\ wk[w].err = "nil"
       /\ wk[w].manifest = ManifestSparse
       /\ wk[w].reqs = <<TagsURL(wk[w].repo), ManifestURL(wk[w].repo, wk[w].tags[1]),
                         BlobURL(wk[w].repo, D01)>>
       /\ wk[w].berr = "ok"
       /\ IsFile(fs, BlobFile(wk[w].repo, ManifestSparse, 2))

\* the exchange of one attempt, in order
Exchange(h, attempt) == SelectSeq(h.log, LAMBDA x : x.attempt = attempt)

\* the step ended the attempt in a failure: the connection is closed and the
\* call either goes to its next attempt or returns an error
AttemptEnded ==
    /\ hs'.conn = "closed"
    /\ hs'.result # "conn"
    /\ \/ hs'.pc = "dial" /\ hs'.attempt = hs.attempt + 1
       \/ hs'.pc = "returned" /\ hs'.result # ""

\* the methods a greeting offers
Offered(greeting) == {greeting[i] : i \in 3..Len(greeting)}

\* what an attempt sends first is a greeting of version 5 that offers no-auth
\* always, and username/password exactly with both credentials
C28_Greeting ==
    \A a \in 1..hs.attempt :
        Exchange(hs, a) # <<>> =>
            LET g == Exchange(hs, a)[1]
            IN  /\ g.dir = "write"
                /\ g.bytes[1] = 5
                /\ g.bytes[2] = Len(g.bytes) - 2
                /\ 0 \in Offered(g.bytes)
                /\ Offered(g.bytes) \subseteq {0, 2}
                /\ 2 \in Offered(g.bytes) <=> (hs.username # "" /\ hs.password # "")

\* the step after the 2-byte method reply, and after the reply to the
\* credentials
C28_Step ==
    /\ hs.pc = "method" =>
         LET r == hs'.log[Len(hs'.log)]
         IN  /\ Len(hs'.log) = Len(hs.log) + 1
             /\ r.dir = "read" /\ Len(r.bytes) = 2
             /\ IF r.err \/ r.bytes[1] # 5 THEN AttemptEnded
                ELSE IF r.bytes[2] = 0 THEN hs'.pc = "connect" /\ hs'.conn = "open"
                ELSE IF r.bytes[2] = 2 THEN hs'.pc = "creds" /\ hs'.conn = "open"
                ELSE AttemptEnded
    /\ hs.pc = "creds" /\ hs'.pc = "auth" =>
         hs'.log[Len(hs'.log)].bytes =
             <<1, Len(Bytes(hs.username))>> \o Bytes(hs.username)
             \o <<Len(Bytes(hs.password))>> \o Bytes(hs.password)
    /\ hs.pc = "auth" =>
         LET r == hs'.log[Len(hs'.log)]
         IN  IF ~r.err /\ r.bytes[2] = 0 THEN hs'.pc = "connect" /\ hs'.conn = "open"
             ELSE AttemptEnded

\* C28: the greeting of connectSOCKS5 always offers method 0x00 and offers
\* 0x02 exactly when both a proxy user name and a password were given.  After
\* the 2-byte reply, method 0x00 goes straight to CONNECT, method 0x02 starts
\* the credential exchange, whose reply must carry status 0x00 for the attempt
\* to go on, and any other method, or a version byte other than 0x05, fails
\* the attempt.
C28_MethodNegotiation == [](C28_Greeting) /\ [][C28_Step]_vars

\* an attempt with credentials in which the proxy chose username/password,
\* accepted them, and the call went on to CONNECT, after an earlier attempt
\* that a reply of version 4 had failed
C28_Witness ==
    /\ hs.pc = "connect"
    /\ hs.attempt = 2
    /\ hs.username = "u" /\ hs.password = "pw"
    /\ Len(Exchange(hs, 1)) = 2
    /\ Exchange(hs, 1)[2].bytes = <<4, 0>>
    /\ Len(Exchange(hs, 2)) = 4
    /\ Exchange(hs, 2)[1].bytes = <<5, 2, 0, 2>>
    /\ Exchange(hs, 2)[2].bytes = <<5, 2>>
    /\ Exchange(hs, 2)[3].bytes = <<1, 1, 117, 2, 112, 119>>
    /\ Exchange(hs, 2)[4].bytes = <<1, 0>>

\* the exchange of the attempt that returned a connection: greeting, method
\* reply, the credentials and their reply exactly when method 2 was chosen,
\* the CONNECT request by domain name to the host and port of the target
\* address, and a reply of 10 bytes with status 0
C29_State ==
    hs.result = "conn" =>
        LET x == Exchange(hs, hs.attempt)
            n == Len(x)
            req == x[n - 1].bytes
        IN  /\ hs.conn = "open"
            /\ n \in {4, 6}
            /\ x[1].dir = "write" /\ x[1].bytes[1] = 5 /\ Len(x[1].bytes) = 2 + x[1].bytes[2]
            /\ x[2].dir = "read" /\ x[2].bytes[1] = 5 /\ ~x[2].err
            /\ n = 4 <=> x[2].bytes[2] = 0
            /\ n = 6 <=> x[2].bytes[2] = 2
            /\ n = 6 => /\ x[3].dir = "write" /\ x[3].bytes[1] = 1
                        /\ x[4].dir = "read" /\ ~x[4].err /\ x[4].bytes[2] = 0
            /\ x[n - 1].dir = "write"
            /\ SubSeq(req, 1, 4) = <<5, 1, 0, 3>>
            /\ Len(req) = 5 + req[5] + 2
            /\ SubSeq(req, 6, 5 + req[5]) = Bytes(hs.targetAddr[1])
            /\ req[Len(req) - 1] * 256 + req[Len(req)] = Atoi(hs.targetAddr[3])
            /\ x[n].dir = "read" /\ ~x[n].err
            /\ Len(x[n].bytes) = 10 /\ x[n].bytes[2] = 0

\* a connect reply with another status ends the attempt in an error
C29_Step ==
    hs.pc = "reply" =>
        LET r == hs'.log[Len(hs'.log)]
        IN  /\ r.dir = "read"
            /\ (r.err \/ r.bytes[2] # 0) => AttemptEnded
            /\ hs'.result = "conn" => ~r.err /\ r.bytes[2] = 0

\* C29: connectSOCKS5 returns a connection only after, in this order, the
\* greeting, the method reply, the credential exchange if one was chosen, a
\* CONNECT request by domain name (address type 0x03, with the host and port
\* of the target as given, never a resolved address) and a 10-byte connect
\* reply with status 0x00; a connect reply with another status never gives a
\* connection and is a handshake error.
C29_FullHandshake == [](C29_State) /\ [][C29_Step]_vars

\* a connection returned at the second attempt, after the proxy refused the
\* first CONNECT with status 5, with credentials exchanged and a target named
\* by an IP literal that goes out as text
C29_Witness ==
    /\ hs.result = "conn"
    /\ hs.attempt = 2
    /\ hs.targetAddr[1] = "10.0.0.1"
    /\ Len(Exchange(hs, 1)) = 4
    /\ Exchange(hs, 1)[4].bytes[2] = 5
    /\ Len(Exchange(hs, 2)) = 6
    /\ Exchange(hs, 2)[5].bytes = <<5, 1, 0, 3, 8, 49, 48, 46, 48, 46, 48, 46, 49, 19, 137>>

\* the attempts made and the waits between them, at each of the two call
\* sites
C30_State ==
    /\ hs.site = "main" => hs.attempt \in 1..3 /\ hs.slept \in {<<>>, <<1>>, <<1, 2>>}
    /\ hs.site = "DialContext" => hs.attempt = 1 /\ hs.slept = <<>>
    /\ Len(hs.slept) = hs.attempt - 1
    /\ hs.conns <= hs.attempt
    /\ (hs.pc = "returned" /\ hs.result \notin {"conn", "invalid target address"}) =>
           \/ hs.site = "main" /\ hs.attempt = 3
           \/ hs.site = "DialContext" /\ hs.attempt = 1

\* a new attempt starts only after a wait of as many seconds as attempts have
\* failed, and the call that returns does not wait
C30_Step ==
    /\ hs'.attempt # hs.attempt =>
           /\ hs'.attempt = hs.attempt + 1
           /\ hs'.slept = Append(hs.slept, hs.attempt)
           /\ hs'.pc = "dial"
    /\ hs'.attempt = hs.attempt => hs'.slept = hs.slept

\* C30: the establishment at startup makes at most 3 attempts, waits 1 s
\* after the first failed attempt and 2 s after the second, and returns an
\* error after the third failed attempt; the re-establishment inside the dial
\* function makes exactly one attempt, without a wait and without a retry.
C30_AttemptsAndBackoff == [](C30_State) /\ [][C30_Step]_vars

\* the startup call has failed three times, the last time at the connect
\* reply, after waiting 1 s and 2 s
C30_Witness ==
    /\ hs.site = "main"
    /\ hs.pc = "returned"
    /\ hs.result = "SOCKS5 connect request failed"
    /\ hs.attempt = 3
    /\ hs.slept = <<1, 2>>
    /\ hs.conns = 3

\* the call inside the dial function has failed at its only attempt
C30_RedialFailedOnce ==
    /\ hs.site = "DialContext"
    /\ hs.pc = "returned"
    /\ hs.result \notin {"conn", "invalid target address"}
    /\ hs.attempt = 1
    /\ hs.slept = <<>>

\* the requests sent, and the tokens taken, up to now
RECURSIVE SumSeq(_, _)
SumSeq(h, k) == IF k > Len(h) THEN 0 ELSE h[k] + SumSeq(h, k + 1)

\* a call is at most at its third attempt
C31_State == \A c \in DOMAIN cl : cl[c].attempt <= 3

\* the limiter is touched by the step that begins a call and by no other;
\* a request goes out either as the first attempt, when the wait is over, or
\* as a retry, when the sleep is over, and the retry leaves the limiter alone
C31_Step ==
    \A c \in DOMAIN cl :
        /\ (cl[c].pc = "idle" /\ cl'[c] # cl[c]) =>
               /\ cl'[c].pc = "waiting" /\ cl'[c].attempt = 0
               /\ limiter' = [tokens |-> TokensAt(limiter, now) - 1, last |-> now]
               /\ sent' = sent
        /\ cl[c].pc # "idle" => limiter' = limiter
        /\ sent' # sent =>
               /\ SumSeq(sent', 1) = SumSeq(sent, 1) + 1
               /\ \/ cl[c].pc = "waiting" /\ cl'[c].attempt = 1
                  \/ cl[c].pc = "backoff" /\ cl'[c].attempt = cl[c].attempt + 1
                                          /\ admitted' = admitted

\* C31: MakeRequest waits on the rate limiter once per call, before its
\* first attempt; the retries of the call are sent without taking another
\* token, so that one call can send up to 3 requests for one token.
C31_OneTokenPerCall == [](C31_State) /\ [][C31_Step]_vars

\* the first call is at its third request and one token was taken
C31_Witness ==
    /\ cl[1].attempt = 3
    /\ SumSeq(sent, 1) = 3
    /\ SumSeq(admitted, 1) = 1
    /\ limiter = [tokens |-> 0, last |-> 0]

\* C32: once the caller has closed the body of a response MakeRequest
\* returned, the response no longer occupies its connection (the body of the
\* transport having been closed), with or without a positive Content-Length
\* and whether or not the body was read to its end.
C32_CloseReleases ==
    \A b \in DOMAIN pool.bodies :
        pool.bodies[b].closeCalled => ~pool.bodies[b].holds

\* closing does release the connection of every body that MakeRequest did
\* not wrap, and of every body that was read to its end
CloseReleasesUnwrappedOrRead ==
    \A b \in DOMAIN pool.bodies :
        (pool.bodies[b].closeCalled /\ (~pool.bodies[b].wrapped \/ pool.bodies[b].eof))
            => ~pool.bodies[b].holds

\* a page with a Content-Length, not read to its end, was closed by
\* ListRepositories and still occupies the connection
ClosedBodyHoldsConnection ==
    /\ pool.fn = "ListRepositories"
    /\ \E b \in DOMAIN pool.bodies :
         /\ pool.bodies[b].closeCalled /\ pool.bodies[b].wrapped
         /\ ~pool.bodies[b].eof /\ pool.bodies[b].holds

\* C33: with one connection per host, a DumpRepository pipeline never waits
\* for a connection it holds itself: when it issues the manifest request, or
\* a blob request, the connection of its tags response has been given back,
\* also when the decoder did not read the tags body to its end.
C33_NoSelfWait ==
    pool.fn = "DumpRepository" =>
        /\ pool.pc = "request" /\ pool.bodies # <<>> => InUse(pool) = 0
        /\ pool.pc # "waiting"
        /\ ~pool.waited

\* the manifest request finds the connection free whenever the tags body was
\* read to its end
ManifestRequestFreeAfterEOF ==
    (pool.fn = "DumpRepository" /\ pool.pc \in {"request", "waiting"} /\ Len(pool.bodies) = 1
        /\ pool.bodies[1].eof) => InUse(pool) = 0 /\ pool.pc = "request"

\* the manifest request of a lone pipeline waits for the connection that its
\* own tags response, not read to its end and not yet closed, occupies
ManifestWaitsForTagsBody ==
    /\ pool.fn = "DumpRepository"
    /\ pool.pc = "waiting"
    /\ Len(pool.bodies) = 1
    /\ pool.bodies[1].holds /\ ~pool.bodies[1].eof /\ ~pool.bodies[1].closeCalled

\* the stage a DumpRepository run is in: before its manifest is parsed, or
\* among its blobs
BeforeBlobs == {"start", "tags", "manifest", "store", "write"}
AmongBlobs == {"blob", "copy", "cleanup"}

\* the errors DumpRepository returns, each with the stage it comes from
C34_Errors ==
    [start |-> {"output directory"},
     tags |-> {"fetch tags", "decode tags", "no tags found"},
     manifest |-> {"fetch manifest"},
     store |-> {"fetch manifest"},
     write |-> {"fetch manifest", "parse manifest"}]

\* a run that has returned nil had its directory, its tags and its manifest
C34_State ==
    \A w \in DOMAIN wk :
        (wk[w].pc = "returned" /\ wk[w].err = "nil") =>
            /\ IsDir(fs, Clean(OutputDir))
            /\ wk[w].tags # <<>>
            /\ Len(wk[w].reqs) >= 2
            /\ IsFile(fs, ManifestFile(wk[w].repo))

\* a run returns an error only before its blobs, and nil only after them
C34_Step ==
    \A w \in DOMAIN wk :
        (wk[w].pc # "returned" /\ wk'[w].pc = "returned") =>
            /\ wk[w].pc \in AmongBlobs => wk'[w].err = "nil"
            /\ wk[w].pc \in BeforeBlobs => wk'[w].err \in C34_Errors[wk[w].pc]
            /\ wk'[w].err # "nil" => wk[w].pc \in BeforeBlobs
            /\ wk[w].pc \in BeforeBlobs \cup AmongBlobs

\* C34: DumpRepository returns nil whenever the output directory could be
\* made, the tag list is not empty and the manifest was fetched, stored and
\* parsed, however many config or layer blobs failed; it returns an error
\* only for a failure of the output directory, the tags or the manifest.
C34_NilDespiteBlobFailures == [](C34_State) /\ [][C34_Step]_vars

\* nil was returned although the config and both layers failed
C34_Witness ==
    \E w \in DOMAIN wk :
       /\ wk[w].pc = "returned" /\ wk[w].err = "nil"
       /\ wk[w].manifest = ManifestAlpine
       /\ Len(wk[w].reqs) = 5
       /\ wk[w].berr \notin {"", "ok"}
       /\ \A j \in 0..2 : BlobFile(wk[w].repo, ManifestAlpine, j) \notin DOMAIN fs

\* C35: ListRepositories requests each catalog page URL at most once, also
\* when a Link header with rel="next" points back to a page already fetched
\* (and so it comes to an end whatever the registry answers).
C35_EachPageOnce ==
    \A i, j \in 1..Len(main.pages) : i # j => main.pages[i] # main.pages[j]

\* ListRepositories keeps no record of the pages it has fetched: the next
\* request goes to whatever the last Link header named
FollowsLastLink ==
    [][(main.pc = "list" /\ main'.pc = "list") =>
           main'.nextURL = NextURL(LinkHeader(env.catalog[PageAt(main.nextURL)]))]_vars

\* the first page, whose Link header names the first page, is requested for
\* the sixth time
SamePageAgainAndAgain ==
    /\ Len(main.pages) = 6
    /\ \A i \in 1..6 : main.pages[i] = CatalogURL
    /\ main.pc = "list" /\ main.nextURL = CatalogURL

\* once a catalog request or its decoding has failed, ListRepositories has
\* returned the error and no name, and DumpAllRepositories has returned the
\* same error with no goroutine started and no file written
C36_State ==
    main.listErr \in {"fetch catalog", "decode catalog"} =>
        /\ main.pc = "returned"
        /\ main.repos = <<>>
        /\ main.result = main.listErr
        /\ wk = <<>>
        /\ DOMAIN fs = {}

\* a goroutine is started, and a file is written, only after a list was
\* returned without an error
C36_Step ==
    (wk' # wk \/ fs' # fs) => main.listErr = "" /\ main.pc \in {"spawn", "wait", "returned"}

\* C36: when the request or the decoding of any catalog page fails,
\* ListRepositories returns an error and no names at all, the names of the
\* pages already fetched included; DumpAllRepositories then starts no worker
\* and writes no file.
C36_NoPartialList == [](C36_State) /\ [][C36_Step]_vars

\* the second page failed to decode after a first page with names
C36_Witness ==
    /\ main.pc = "returned" /\ main.listErr = "decode catalog"
    /\ Len(main.pages) = 2
    /\ env.catalog[1].repos = <<Empty, Alpine>>
    /\ env.caller = "dump-all"

\* the username/password requests that went to the proxy
CredentialWrites ==
    {k \in DOMAIN hs.log : hs.log[k].dir = "write" /\ hs.log[k].bytes[1] = 1}

\* C37: connectSOCKS5 sends the username/password request only when it
\* offered method 0x02, that is with both a proxy user name and a password;
\* when the proxy selects 0x02 without its having been offered, the attempt
\* is rejected and no credential byte is sent.
C37_CredentialsOnlyIfOffered ==
    CredentialWrites # {} => hs.username # "" /\ hs.password # ""

\* the request is sent whenever the proxy selects 0x02, and it carries what
\* was given
CredentialsWheneverSelected ==
    \A k \in CredentialWrites :
        /\ k > 1 /\ hs.log[k - 1].dir = "read" /\ hs.log[k - 1].bytes = <<5, 2>>
        /\ hs.log[k].bytes = Credentials(hs.username, hs.password)

\* with a user name and no password only no-auth was offered, the proxy
\* selected 0x02, and the user name went to the proxy
UsernameSentUnoffered ==
    /\ hs.username = "u" /\ hs.password = ""
    /\ Len(hs.log) >= 3
    /\ hs.log[1].bytes = <<5, 1, 0>>
    /\ hs.log[2].bytes = <<5, 2>>
    /\ hs.log[3].dir = "write" /\ hs.log[3].bytes = <<1, 1, 117, 0>>

\* C38: every file a dump creates (manifest.json, temporary and final blob
\* files) lies inside outputDir, for every repository name and every digest
\* string, also with ".." or "/" segments in them.
C38_InsideOutputDir ==
    \A cp \in DOMAIN fs :
        fs[cp].type = "file" => IsPrefix(Clean(OutputDir), cp) /\ Len(cp) > Len(Clean(OutputDir))

\* the files of a repository whose name and digests have no ".." segment
\* lie in outputDir/<repository>
PlainNamesStayInside ==
    (\A w \in DOMAIN wk : wk[w].repo \in {Alpine, Nested}) =>
        \A cp \in DOMAIN fs :
            fs[cp].type = "file" =>
                \E w \in DOMAIN wk :
                    IsPrefix(Clean(OutputDir \o <<Sep>> \o wk[w].repo), cp)

\* the manifest of the repository "../loot" is written next to outputDir
ManifestOutsideOutputDir ==
    /\ IsFile(fs, << <<"loot">>, <<"manifest.json">> >>)
    /\ \E w \in DOMAIN wk : wk[w].repo = Loot

\* the temporary file of the digest "x/../../../loot" is made in the
\* directory above outputDir
TempFileOutsideOutputDir ==
    \E w \in DOMAIN wk :
        /\ wk[w].repo = Mirror
        /\ wk[w].pc \in {"copy", "cleanup"}
        /\ \E cp \in DOMAIN fs :
              fs[cp].type = "file" /\ Len(cp) = 1 /\ cp[1][1] = "blob_"

\* the temporary files of goroutine w
TempFilesOf(w) == {p \in DOMAIN fs : IsTempName(p) /\ Last(p)[2] = ToString(w)}

\* outside getAndStoreBlob a goroutine has no temporary file, and inside it
\* at most the one of the call
C39_State ==
    \A w \in DOMAIN wk :
        /\ wk[w].pc \notin {"copy", "cleanup"} => TempFilesOf(w) = {}
        /\ wk[w].pc \in {"copy", "cleanup"} => TempFilesOf(w) \subseteq {TempOf(w)}
        /\ wk[w].pc = "cleanup" => wk[w].berr \in {"read", "integrity", "rename", "ok"}

\* a call that has made its temporary file returns through the deferred
\* remove, whatever its outcome, and the name is gone when it has returned
C39_Step ==
    \A w \in DOMAIN wk :
        /\ (wk[w].pc = "copy" /\ wk'[w] # wk[w]) => wk'[w].pc \in {"copy", "cleanup"}
        /\ (wk[w].pc = "cleanup" /\ wk'[w] # wk[w]) =>
               /\ wk'[w].pc = "blob"
               /\ TempOf(w) \notin DOMAIN fs'

\* C39: on every return path of getAndStoreBlob after its temporary file was
\* made (copy error, digest mismatch, rename failure, success) no file of
\* that temporary name is left in the repository directory when the call
\* returns.
C39_TempFileRemoved == [](C39_State) /\ [][C39_Step]_vars

\* a call whose rename failed has returned and its temporary file, complete
\* and verified, is gone
C39_Witness ==
    \E w \in DOMAIN wk :
        /\ wk[w].pc = "blob" /\ wk[w].berr = "rename"
        /\ TempFilesOf(w) = {}
        /\ \E v \in DOMAIN wk : v # w /\ wk[v].pc = "cleanup" /\ wk[v].berr = "read"
                                      /\ IsFile(fs, TempOf(v))

\* the attempts are at most maxRetries, each with one dial; between the
\* attempts and after an error every connection dialled has been closed; a
\* connection is returned open, with its read deadline cleared, after its
\* connect reply, and with it no error
C40_State ==
    /\ hs.attempt <= hs.maxRetries
    /\ hs.conns <= hs.attempt
    /\ hs.pc = "dial" => hs.closes = hs.conns /\ hs.conns <= hs.attempt - 1 /\ hs.conn # "open"
    /\ hs.pc \notin {"dial", "returned"} => hs.conn = "open" /\ hs.closes = hs.conns - 1
    /\ hs.pc = "returned" =>
          IF hs.result = "conn"
          THEN /\ hs.conn = "open" /\ hs.closes = hs.conns - 1
               /\ hs.deadline = "none"
               /\ hs.log[Len(hs.log)].dir = "read" /\ Len(hs.log[Len(hs.log)].bytes) = 10
          ELSE /\ hs.result # ""
               /\ hs.conn # "open" /\ hs.closes = hs.conns

\* a connection that was dialled is closed by the step that fails its attempt
C40_Step ==
    (hs.conn = "open" /\ (hs'.attempt # hs.attempt \/ (hs'.pc = "returned" /\ hs'.result # "conn")))
        => hs'.conn = "closed" /\ hs'.closes = hs.closes + 1

\* C40: every attempt of connectSOCKS5 that fails after its dial succeeded
\* closes its connection before the next attempt or the return; the function
\* dials at most maxRetries times and returns either a connection whose
\* handshake succeeded, its read deadline cleared, or an error, and never an
\* open connection with an error.
C40_ClosedOnFailure == [](C40_State) /\ [][C40_Step]_vars

\* three attempts were dialled; the first failed writing its greeting, the
\* second at its authentication reply, the third at its method reply, and the
\* call returned its error with all three connections closed
C40_Witness ==
    /\ hs.pc = "returned"
    /\ hs.result = "SOCKS5 no acceptable auth methods"
    /\ hs.attempt = 3 /\ hs.conns = 3 /\ hs.closes = 3
    /\ hs.conn = "closed"
    /\ Len(Exchange(hs, 1)) = 0
    /\ Len(Exchange(hs, 2)) = 4
    /\ Len(Exchange(hs, 3)) = 2

====
